---- MODULE Spec2Model ----
(***************************************************************************)
(* The connection handshake engine of the relayer (relayer/src/            *)
(* connection.rs) driven against two ledgers.  The engine's state is the   *)
(* Connection record (delay_period, a_side, b_side); the ledgers hold      *)
(* connection ends and answer the chain-handle calls the engine makes.     *)
(* Every chain-handle call may fail; a run draws its failures from a       *)
(* bounded budget.                                                         *)
(***************************************************************************)
EXTENDS Integers, Sequences, FiniteSets, TLC

(***************************************************************************)
(* Bounds of the model.                                                    *)
(***************************************************************************)
\* connections other parties opened on a chain before the run starts
MaxPre == 1
\* failing chain-handle calls in one run
MaxFaults == 5

(***************************************************************************)
(* Program constants.                                                      *)
(***************************************************************************)
MAX_PACKET_DELAY_SECS == 120
MAX_RETRIES == 5

(***************************************************************************)
(* Data.  Option<T> is a sequence of length at most one.                   *)
(***************************************************************************)
None == <<>>
Some(x) == <<x>>

\* std::time::Duration: (secs, nanos), compared lexicographically
Duration(s, n) == [secs |-> s, nanos |-> n]
MAX_PACKET_DELAY == Duration(MAX_PACKET_DELAY_SECS, 0)
ZERO_DURATION == Duration(0, 0)
DurationGt(x, y) == x.secs > y.secs \/ (x.secs = y.secs /\ x.nanos > y.nanos)

ChainIds == {"chainA", "chainB"}
ClientIds == {"client-a", "client-b"}
ConnIds == 0 .. (MaxPre + 1)
States == {"Uninitialized", "Init", "TryOpen", "Open"}

\* the discriminant of ics03 State, as the engine's `as u32` cast reads it
StateOrd(s) ==
    CASE s = "Uninitialized" -> 0
      [] s = "Init" -> 1
      [] s = "TryOpen" -> 2
      [] s = "Open" -> 3

ConnectionEnd(st, cl, cpcl, cpconn, d) ==
    [state |-> st, client_id |-> cl, cp_client_id |-> cpcl,
     cp_connection_id |-> cpconn, delay_period |-> d]

NoEnd == ConnectionEnd("Uninitialized", "", "", None, ZERO_DURATION)

ConnectionSide(ch, cl, conn) ==
    [chain |-> ch, client_id |-> cl, connection_id |-> conn]

ForeignClient(id, dst, src) == [id |-> id, dst_chain |-> dst, src_chain |-> src]

\* messages; one record shape for all kinds
Msg(ty, cl, cpcl, conn, cpconn, prev, d, from) ==
    [type |-> ty, client_id |-> cl, cp_client_id |-> cpcl, connection_id |-> conn,
     cp_connection_id |-> cpconn, previous_connection_id |-> prev,
     delay_period |-> d, proof_from |-> from]

\* events; one record shape for all kinds
Event(k, conn, cl, cpconn, cpcl) ==
    [kind |-> k, connection_id |-> conn, client_id |-> cl,
     counterparty_connection_id |-> cpconn, counterparty_client_id |-> cpcl]

ChainErrorEvent == Event("ChainError", None, "", None, "")
UpdateClientEvent == Event("UpdateClient", None, "", None, "")
NoEvent == Event("", None, "", None, "")

VARIABLES
    conns,      \* conns[chain][id]: the connection end a chain holds under id
    op,         \* the entry point the program called
    args,       \* its arguments
    engine,     \* the Connection object
    pc,         \* position of the engine inside new / handshake
    counter,    \* handshake's retry counter
    observed,   \* the pair of states Phase 3 read last
    last,       \* what the last handshake step attempted
    result,     \* what the entry point returned ("" while running)
    sent,       \* every batch handed to send_msgs so far, with multiplicity
    trail,      \* handshake messages handed to send_msgs, repeats collapsed
    healthy,    \* every call succeeds and every valid message is accepted
    faults,     \* failed calls so far
    racers      \* the relayers driving one connection side by side, if any

vars == <<conns, op, args, engine, pc, counter, observed, last, result, sent,
          trail, healthy, faults, racers>>

(***************************************************************************)
(* The ledgers (ICS-003 connection handshake, as far as the engine sees    *)
(* it through ChainHandle).                                                *)
(***************************************************************************)
Used(cs, ch) == {i \in ConnIds : cs[ch][i].state # "Uninitialized"}

HasRoom(cs, ch) == Used(cs, ch) # ConnIds

\* chains number their connections in order of creation
NextConnId(cs, ch) == CHOOSE i \in ConnIds \ Used(cs, ch) :
                          \A j \in ConnIds \ Used(cs, ch) : i <= j

QueryConnection(cs, ch, id) == cs[ch][id]

\* what the proof carried by a handshake message proves: the state of the
\* counterparty's end on the chain the proof was taken from
ProvenEnd(cs, m) ==
    IF m.cp_connection_id = None THEN NoEnd
    ELSE cs[m.proof_from][m.cp_connection_id[1]]

Accepts(cs, ch, m) ==
    CASE m.type = "UpdateClient" -> TRUE
      [] m.type = "OpenInit" -> HasRoom(cs, ch)
      [] m.type = "OpenTry" ->
            /\ ProvenEnd(cs, m).state \in {"Init", "TryOpen"}
            /\ ProvenEnd(cs, m).client_id = m.cp_client_id
            /\ ProvenEnd(cs, m).cp_client_id = m.client_id
            /\ IF m.previous_connection_id = None THEN HasRoom(cs, ch)
               ELSE LET e == cs[ch][m.previous_connection_id[1]] IN
                    /\ e.state = "Init"
                    /\ e.client_id = m.client_id
                    /\ e.cp_client_id = m.cp_client_id
      [] m.type = "OpenAck" ->
            /\ m.connection_id # None
            /\ cs[ch][m.connection_id[1]].state \in {"Init", "TryOpen"}
            /\ ProvenEnd(cs, m).state = "TryOpen"
            /\ ProvenEnd(cs, m).cp_connection_id = m.connection_id
      [] m.type = "OpenConfirm" ->
            /\ m.connection_id # None
            /\ cs[ch][m.connection_id[1]].state = "TryOpen"
            /\ LET e == cs[ch][m.connection_id[1]] IN
               /\ e.cp_connection_id # None
               /\ cs[m.proof_from][e.cp_connection_id[1]].state = "Open"
               /\ cs[m.proof_from][e.cp_connection_id[1]].cp_connection_id
                      = m.connection_id
      [] OTHER -> FALSE

\* the connection a message creates or advances
Target(cs, ch, m) ==
    CASE m.type = "OpenInit" -> NextConnId(cs, ch)
      [] m.type = "OpenTry" ->
            IF m.previous_connection_id = None THEN NextConnId(cs, ch)
            ELSE m.previous_connection_id[1]
      [] OTHER -> m.connection_id[1]

Apply(cs, ch, m) ==
    IF m.type = "UpdateClient" THEN cs
    ELSE LET id == Target(cs, ch, m)
             old == cs[ch][id]
             new == CASE m.type = "OpenInit" ->
                            ConnectionEnd("Init", m.client_id, m.cp_client_id,
                                          None, m.delay_period)
                      [] m.type = "OpenTry" ->
                            ConnectionEnd("TryOpen", m.client_id, m.cp_client_id,
                                          m.cp_connection_id, m.delay_period)
                      [] m.type = "OpenAck" ->
                            [old EXCEPT !.state = "Open",
                                        !.cp_connection_id = m.cp_connection_id]
                      [] m.type = "OpenConfirm" -> [old EXCEPT !.state = "Open"]
         IN [cs EXCEPT ![ch][id] = new]

EventKind(ty) ==
    CASE ty = "OpenInit" -> "OpenInitConnection"
      [] ty = "OpenTry" -> "OpenTryConnection"
      [] ty = "OpenAck" -> "OpenAckConnection"
      [] ty = "OpenConfirm" -> "OpenConfirmConnection"
      [] OTHER -> "UpdateClient"

\* the event a chain emits for an accepted message; withId = FALSE is a
\* ledger that leaves the connection id attribute out
Emitted(cs, ch, m, withId) ==
    IF m.type = "UpdateClient" THEN UpdateClientEvent
    ELSE LET id == Target(cs, ch, m)
             e == Apply(cs, ch, m)[ch][id]
         IN Event(EventKind(m.type), IF withId THEN Some(id) ELSE None,
                  e.client_id, e.cp_connection_id, e.cp_client_id)

\* the outcome of a transaction whose first message emitted ev and whose
\* other messages had outcome rest
Prepend(ev, rest) ==
    IF rest.ok
    THEN [ok |-> TRUE, conns |-> rest.conns, events |-> <<ev>> \o rest.events]
    ELSE rest

RECURSIVE Deliver(_, _, _, _)
\* a batch is one transaction: its messages run in order, all or nothing
Deliver(cs, ch, msgs, withId) ==
    IF msgs = <<>> THEN [ok |-> TRUE, conns |-> cs, events |-> <<>>]
    ELSE IF ~Accepts(cs, ch, Head(msgs))
         THEN [ok |-> FALSE, conns |-> cs, events |-> <<ChainErrorEvent>>]
         ELSE Prepend(Emitted(cs, ch, Head(msgs), withId),
                      Deliver(Apply(cs, ch, Head(msgs)), ch, Tail(msgs), withId))

\* send_msgs under response mode r: the transport fails, the ledger rejects
\* the transaction, the ledger answers without events, the ledger leaves the
\* connection id out of its event, or all is well
Respond(cs, d, r) ==
    CASE r = "submit_error" -> [err |-> TRUE, conns |-> cs, events |-> <<>>]
      [] r = "chain_error" -> [err |-> FALSE, conns |-> cs, events |-> <<ChainErrorEvent>>]
      [] r = "no_event" -> [err |-> FALSE, conns |-> cs, events |-> <<UpdateClientEvent>>]
      [] OTHER -> [err |-> FALSE, conns |-> IF d.ok THEN d.conns ELSE cs,
                   events |-> d.events]

SendMsgs(cs, ch, msgs, r) == Respond(cs, Deliver(cs, ch, msgs, r # "no_id"), r)

(***************************************************************************)
(* The foreign client (external): build_update_client.                     *)
(***************************************************************************)
\* the update of client cl, hosted on the destination, from headers of `from`
BuildUpdateClient(cl, from) ==
    <<Msg("UpdateClient", cl, "", None, None, None, ZERO_DURATION, from)>>

(***************************************************************************)
(* The engine.                                                             *)
(***************************************************************************)
Connection(d, a, b) == [delay_period |-> d, a_side |-> a, b_side |-> b]

NoEngine == Connection(ZERO_DURATION, ConnectionSide("", "", None),
                       ConnectionSide("", "", None))

src_chain(c) == c.a_side.chain
dst_chain(c) == c.b_side.chain
src_client_id(c) == c.a_side.client_id
dst_client_id(c) == c.b_side.client_id
src_connection_id(c) == c.a_side.connection_id
dst_connection_id(c) == c.b_side.connection_id

\* a faulty flipped: the b side lands on both sides
flipped_OntoB(c) == Connection(c.delay_period, c.b_side, c.b_side)

\* a faulty flipped: the sides stay where they are
flipped_Same(c) == c

flipped(c) == Connection(c.delay_period, c.b_side, c.a_side)

\* a faulty validate_clients: only a_client's source is compared
validate_clients_First(a_client, b_client) ==
    IF a_client.src_chain # b_client.dst_chain THEN "chain_id_mismatch" ELSE "Ok"

validate_clients(a_client, b_client) ==
    IF a_client.src_chain # b_client.dst_chain THEN "chain_id_mismatch"
    ELSE IF a_client.dst_chain # b_client.src_chain THEN "chain_id_mismatch"
    ELSE "Ok"

\* a faulty delay check: whole seconds only
DelayTooLong_Secs(delay_period) == delay_period.secs > MAX_PACKET_DELAY.secs

\* new's check of the delay period against the upper bound
DelayTooLong(delay_period) == DurationGt(delay_period, MAX_PACKET_DELAY)

\* a faulty constructor: the a side starts with a connection id
NewConnection_WithId(a_client, b_client, delay_period) ==
    Connection(delay_period,
               ConnectionSide(a_client.dst_chain, a_client.id, Some(0)),
               ConnectionSide(b_client.dst_chain, b_client.id, None))

\* the Connection new builds before it runs the handshake
NewConnection(a_client, b_client, delay_period) ==
    Connection(delay_period,
               ConnectionSide(a_client.dst_chain, a_client.id, None),
               ConnectionSide(b_client.dst_chain, b_client.id, None))

\* a faulty extraction: an event without the id gives connection 0
extract_connection_id_Default(event) ==
    IF event.kind \in {"OpenInitConnection", "OpenTryConnection",
                       "OpenAckConnection", "OpenConfirmConnection"}
       /\ event.connection_id # None
    THEN event.connection_id
    ELSE Some(0)

extract_connection_id(event) ==
    IF event.kind \in {"OpenInitConnection", "OpenTryConnection",
                       "OpenAckConnection", "OpenConfirmConnection"}
    THEN event.connection_id
    ELSE None

\* a batch as send_msgs receives it
Batch(ch, msgs) == [chain |-> ch, msgs |-> msgs]

BuildErr(e, srcSent) == [ok |-> FALSE, err |-> e, msgs |-> <<>>, src_sent |-> srcSent]
BuildOk(msgs, srcSent) == [ok |-> TRUE, err |-> "", msgs |-> msgs, src_sent |-> srcSent]

\* the chain-handle calls of each builder, in the order the builder makes them
InitCalls == <<"get_signer", "query_commitment_prefix", "query_compatible_versions">>

\* a faulty builder: OpenInit names a connection of the counterparty
build_conn_init_Named(c, f) ==
    IF f = "get_signer" THEN BuildErr("signer", <<>>)
    ELSE IF f = "query_commitment_prefix" THEN BuildErr("chain_query", <<>>)
    ELSE IF f = "query_compatible_versions" THEN BuildErr("chain_query", <<>>)
    ELSE BuildOk(<<Msg("OpenInit", dst_client_id(c), src_client_id(c), None, Some(0),
                       None, c.delay_period, src_chain(c))>>, <<>>)

\* f names the call that fails in this run of the builder ("none": no call)
build_conn_init(c, f) ==
    IF f = "get_signer" THEN BuildErr("signer", <<>>)
    ELSE IF f = "query_commitment_prefix" THEN BuildErr("chain_query", <<>>)
    ELSE IF f = "query_compatible_versions" THEN BuildErr("chain_query", <<>>)
    ELSE BuildOk(<<Msg("OpenInit", dst_client_id(c), src_client_id(c), None, None,
                       None, c.delay_period, src_chain(c))>>, <<>>)

RECURSIVE FirstEvent_AnyOpen(_, _)
\* a faulty walk: any connection event ends it
FirstEvent_AnyOpen(events, own) ==
    IF events = <<>> THEN [tag |-> "missing", event |-> NoEvent]
    ELSE IF Head(events).kind \in {"OpenInitConnection", "OpenTryConnection",
                                   "OpenAckConnection", "OpenConfirmConnection"}
         THEN [tag |-> "ok", event |-> Head(events)]
    ELSE IF Head(events).kind = "ChainError"
         THEN [tag |-> "tx_response", event |-> Head(events)]
         ELSE FirstEvent_AnyOpen(Tail(events), own)

RECURSIVE FirstEvent(_, _)
\* the walk over the returned events that every *_and_send makes
FirstEvent(events, own) ==
    IF events = <<>> THEN [tag |-> "missing", event |-> NoEvent]
    ELSE IF Head(events).kind = own THEN [tag |-> "ok", event |-> Head(events)]
    ELSE IF Head(events).kind = "ChainError"
         THEN [tag |-> "tx_response", event |-> Head(events)]
         ELSE FirstEvent(Tail(events), own)

SendErr(e, cs, batches) ==
    [ok |-> FALSE, err |-> e, event |-> NoEvent, conns |-> cs, sent |-> batches]

\* what a *_and_send returns once send_msgs answered resp
Returned(cs, resp, batches, own, missing) ==
    IF resp.err THEN SendErr("submit", cs, batches)
    ELSE IF FirstEvent(resp.events, own).tag = "ok"
         THEN [ok |-> TRUE, err |-> "", event |-> FirstEvent(resp.events, own).event,
               conns |-> resp.conns, sent |-> batches]
         ELSE SendErr(IF FirstEvent(resp.events, own).tag = "tx_response"
                      THEN "tx_response" ELSE missing,
                      resp.conns, batches)

\* submit to the destination, walk the returned events
AndSend(c, cs, b, r, own, missing) ==
    \* built is what the builder returned, resp what send_msgs answered; each
    \* is a value of its own, as the two locals of the code are
    CHOOSE out \in
        {IF ~built.ok THEN SendErr(built.err, cs, built.src_sent)
         ELSE CHOOSE ret \in
                {Returned(cs, resp,
                          built.src_sent \o <<Batch(dst_chain(c), built.msgs)>>,
                          own, missing) :
                    resp \in {SendMsgs(cs, dst_chain(c), built.msgs, r)}} : TRUE :
            built \in {b}} : TRUE

build_conn_init_and_send(c, cs, f, r) ==
    AndSend(c, cs, build_conn_init(c, f), r, "OpenInitConnection",
            "missing_connection_init_event")

TryCalls == <<"query_connection", "query_latest_height_dst",
              "build_update_client_on_src", "send_msgs_src",
              "query_latest_height_src", "build_connection_proofs",
              "build_update_client_on_dst", "get_signer",
              "query_commitment_prefix">>

\* a faulty cross-check: the delay of the Connection is always taken
TryDelay_Engine(c, src_connection) == c.delay_period

\* the delay build_conn_try puts in OpenTry
TryDelay(c, src_connection) ==
    IF src_connection.delay_period # c.delay_period
    THEN src_connection.delay_period
    ELSE c.delay_period

\* a faulty choice: the id of the Connection is always taken
TryPreviousConnectionId_Engine(c, src_connection) == c.b_side.connection_id

\* the previous connection id build_conn_try puts in OpenTry
TryPreviousConnectionId(c, src_connection) ==
    IF src_connection.cp_connection_id = None
    THEN c.b_side.connection_id
    ELSE src_connection.cp_connection_id

build_conn_try(c, cs, f) ==
    IF src_connection_id(c) = None THEN BuildErr("missing_local_connection_id", <<>>)
    ELSE IF f = "query_connection" THEN BuildErr("chain_query", <<>>)
    ELSE IF f = "query_latest_height_dst" THEN BuildErr("chain_query", <<>>)
    ELSE IF f = "build_update_client_on_src" THEN BuildErr("client_operation", <<>>)
    ELSE
    LET src_connection == QueryConnection(cs, src_chain(c), src_connection_id(c)[1])
        client_msgs == Batch(src_chain(c),
                             BuildUpdateClient(src_client_id(c), dst_chain(c)))
        msgs == BuildUpdateClient(dst_client_id(c), src_chain(c))
        new_msg == Msg("OpenTry", dst_client_id(c), src_client_id(c), None,
                       src_connection_id(c),
                       TryPreviousConnectionId(c, src_connection),
                       TryDelay(c, src_connection), src_chain(c))
    IN IF f = "send_msgs_src" THEN BuildErr("submit", <<client_msgs>>)
       ELSE IF f = "query_latest_height_src" THEN BuildErr("chain_query", <<client_msgs>>)
       ELSE IF f = "build_connection_proofs"
            THEN BuildErr("connection_proof", <<client_msgs>>)
       ELSE IF f = "build_update_client_on_dst"
            THEN BuildErr("client_operation", <<client_msgs>>)
       ELSE IF f = "get_signer" THEN BuildErr("signer", <<client_msgs>>)
       ELSE IF f = "query_commitment_prefix"
            THEN BuildErr("chain_query", <<client_msgs>>)
       ELSE BuildOk(Append(msgs, new_msg), <<client_msgs>>)

build_conn_try_and_send(c, cs, f, r) ==
    AndSend(c, cs, build_conn_try(c, cs, f), r, "OpenTryConnection",
            "missing_connection_try_event")

\* a faulty check: the client ids are not compared
check_destination_connection_state_AnyClient(existing_connection, expected_connection) ==
    IF /\ StateOrd(existing_connection.state) <= StateOrd(expected_connection.state)
       /\ \/ existing_connection.cp_connection_id = None
          \/ existing_connection.cp_connection_id = expected_connection.cp_connection_id
    THEN "Ok"
    ELSE "connection_already_exist"

check_destination_connection_state(existing_connection, expected_connection) ==
    LET good_client_ids ==
            /\ existing_connection.client_id = expected_connection.client_id
            /\ existing_connection.cp_client_id = expected_connection.cp_client_id
        good_state ==
            StateOrd(existing_connection.state) <= StateOrd(expected_connection.state)
        good_connection_ids ==
            \/ existing_connection.cp_connection_id = None
            \/ existing_connection.cp_connection_id
                   = expected_connection.cp_connection_id
    IN IF good_state /\ good_client_ids /\ good_connection_ids
       THEN "Ok"
       ELSE "connection_already_exist"

\* a faulty bound: an Open destination end passes the validation
HighestState_Open(msg_type) == "Open"

\* the highest state validated_expected_connection expects on the destination
HighestState(msg_type) ==
    CASE msg_type = "OpenAck" -> "TryOpen"
      [] msg_type = "OpenConfirm" -> "TryOpen"
      [] OTHER -> "Uninitialized"

ValidateCalls == <<"v_query_commitment_prefix", "v_query_compatible_versions",
                   "v_query_connection">>

\* the end validated_expected_connection expects on the destination
ExpectedConnection(c, msg_type) ==
    ConnectionEnd(HighestState(msg_type), dst_client_id(c), src_client_id(c),
                  src_connection_id(c), ZERO_DURATION)

\* "Ok", or the error validated_expected_connection returns
validated_expected_connection(c, cs, f, msg_type) ==
    IF dst_connection_id(c) = None THEN "missing_counterparty_connection_id"
    ELSE IF f = "v_query_commitment_prefix" THEN "chain_query"
    ELSE IF f = "v_query_compatible_versions" THEN "chain_query"
    ELSE IF f = "v_query_connection" THEN "chain_query"
    ELSE
    LET dst_expected_connection == ExpectedConnection(c, msg_type)
        dst_connection == QueryConnection(cs, dst_chain(c), dst_connection_id(c)[1])
    IN IF dst_connection.state = "Uninitialized" THEN "missing_connection_id"
       ELSE check_destination_connection_state(dst_connection, dst_expected_connection)

AckCalls == ValidateCalls \o
            <<"query_connection", "query_latest_height_dst",
              "build_update_client_on_src", "send_msgs_src",
              "query_latest_height_src", "build_connection_proofs",
              "build_update_client_on_dst", "get_signer">>

build_conn_ack(c, cs, f) ==
    IF src_connection_id(c) = None THEN BuildErr("missing_local_connection_id", <<>>)
    ELSE IF dst_connection_id(c) = None
         THEN BuildErr("missing_counterparty_connection_id", <<>>)
    ELSE IF validated_expected_connection(c, cs, f, "OpenAck") # "Ok"
         THEN BuildErr(validated_expected_connection(c, cs, f, "OpenAck"), <<>>)
    ELSE IF f = "query_connection" THEN BuildErr("chain_query", <<>>)
    ELSE IF f = "query_latest_height_dst" THEN BuildErr("chain_query", <<>>)
    ELSE IF f = "build_update_client_on_src" THEN BuildErr("client_operation", <<>>)
    ELSE
    LET client_msgs == Batch(src_chain(c),
                             BuildUpdateClient(src_client_id(c), dst_chain(c)))
        msgs == BuildUpdateClient(dst_client_id(c), src_chain(c))
        new_msg == Msg("OpenAck", "", "", dst_connection_id(c), src_connection_id(c),
                       None, ZERO_DURATION, src_chain(c))
    IN IF f = "send_msgs_src" THEN BuildErr("submit", <<client_msgs>>)
       ELSE IF f = "query_latest_height_src" THEN BuildErr("chain_query", <<client_msgs>>)
       ELSE IF f = "build_connection_proofs"
            THEN BuildErr("connection_proof", <<client_msgs>>)
       ELSE IF f = "build_update_client_on_dst"
            THEN BuildErr("client_operation", <<client_msgs>>)
       ELSE IF f = "get_signer" THEN BuildErr("signer", <<client_msgs>>)
       ELSE BuildOk(Append(msgs, new_msg), <<client_msgs>>)

build_conn_ack_and_send(c, cs, f, r) ==
    AndSend(c, cs, build_conn_ack(c, cs, f), r, "OpenAckConnection",
            "missing_connection_ack_event")

ConfirmCalls == ValidateCalls \o
                <<"query_latest_height_src", "query_connection",
                  "build_connection_proofs", "build_update_client_on_dst",
                  "get_signer">>

\* a faulty builder: the OpenConfirm message ahead of the client update
build_conn_confirm_MsgFirst(c, cs, f) ==
    IF src_connection_id(c) = None THEN BuildErr("missing_local_connection_id", <<>>)
    ELSE IF dst_connection_id(c) = None
         THEN BuildErr("missing_counterparty_connection_id", <<>>)
    ELSE IF validated_expected_connection(c, cs, f, "OpenAck") # "Ok"
         THEN BuildErr(validated_expected_connection(c, cs, f, "OpenAck"), <<>>)
    ELSE IF f = "query_latest_height_src" THEN BuildErr("chain_query", <<>>)
    ELSE IF f = "query_connection" THEN BuildErr("connection_query", <<>>)
    ELSE IF f = "build_connection_proofs" THEN BuildErr("connection_proof", <<>>)
    ELSE IF f = "build_update_client_on_dst" THEN BuildErr("client_operation", <<>>)
    ELSE IF f = "get_signer" THEN BuildErr("signer", <<>>)
    ELSE BuildOk(<<Msg("OpenConfirm", "", "", dst_connection_id(c), None, None,
                       ZERO_DURATION, src_chain(c))>>
                 \o BuildUpdateClient(dst_client_id(c), src_chain(c)),
                 <<>>)

build_conn_confirm(c, cs, f) ==
    IF src_connection_id(c) = None THEN BuildErr("missing_local_connection_id", <<>>)
    ELSE IF dst_connection_id(c) = None
         THEN BuildErr("missing_counterparty_connection_id", <<>>)
    ELSE IF validated_expected_connection(c, cs, f, "OpenAck") # "Ok"
         THEN BuildErr(validated_expected_connection(c, cs, f, "OpenAck"), <<>>)
    ELSE IF f = "query_latest_height_src" THEN BuildErr("chain_query", <<>>)
    ELSE IF f = "query_connection" THEN BuildErr("connection_query", <<>>)
    ELSE IF f = "build_connection_proofs" THEN BuildErr("connection_proof", <<>>)
    ELSE IF f = "build_update_client_on_dst" THEN BuildErr("client_operation", <<>>)
    ELSE IF f = "get_signer" THEN BuildErr("signer", <<>>)
    ELSE BuildOk(Append(BuildUpdateClient(dst_client_id(c), src_chain(c)),
                        Msg("OpenConfirm", "", "", dst_connection_id(c), None, None,
                            ZERO_DURATION, src_chain(c))),
                 <<>>)

build_conn_confirm_and_send(c, cs, f, r) ==
    AndSend(c, cs, build_conn_confirm(c, cs, f), r, "OpenConfirmConnection",
            "missing_connection_confirm_event")

\* a faulty find: the state is looked at before the client ids
find_StateFirst(a_client, b_client, conn_end_a) ==
    LET end_a == conn_end_a.connection_end
        err(e) == [err |-> e, connection |-> NoEngine]
    IN IF validate_clients(a_client, b_client) # "Ok"
       THEN err(validate_clients(a_client, b_client))
       ELSE IF end_a.state # "Open" THEN err("connection_not_open")
       ELSE IF end_a.client_id # a_client.id THEN err("connection_client_id_mismatch")
       ELSE IF end_a.cp_client_id # b_client.id
            THEN err("connection_client_id_mismatch")
       ELSE IF end_a.cp_connection_id = None
            THEN err("missing_counterparty_connection_id_field")
       ELSE [err |-> "Ok",
             connection |->
                 Connection(end_a.delay_period,
                            ConnectionSide(a_client.dst_chain, a_client.id,
                                           Some(conn_end_a.connection_id)),
                            ConnectionSide(b_client.dst_chain, b_client.id,
                                           end_a.cp_connection_id))]

\* find: "Ok" with the Connection it returns, or the error
find(a_client, b_client, conn_end_a) ==
    LET end_a == conn_end_a.connection_end
        err(e) == [err |-> e, connection |-> NoEngine]
    IN IF validate_clients(a_client, b_client) # "Ok"
       THEN err(validate_clients(a_client, b_client))
       ELSE IF end_a.client_id # a_client.id THEN err("connection_client_id_mismatch")
       ELSE IF end_a.cp_client_id # b_client.id
            THEN err("connection_client_id_mismatch")
       ELSE IF end_a.state # "Open" THEN err("connection_not_open")
       ELSE IF end_a.cp_connection_id = None
            THEN err("missing_counterparty_connection_id_field")
       ELSE [err |-> "Ok",
             connection |->
                 Connection(end_a.delay_period,
                            ConnectionSide(a_client.dst_chain, a_client.id,
                                           Some(conn_end_a.connection_id)),
                            ConnectionSide(b_client.dst_chain, b_client.id,
                                           end_a.cp_connection_id))]

(***************************************************************************)
(* chain/counterparty.rs: the state of the counterparty's end.             *)
(***************************************************************************)
\* the connection ids of a chain, in the order its queries list them
IdSeq == [i \in 1 .. Cardinality(ConnIds) |-> i - 1]

\* query_client_connections: the connections of client cl on chain ch
ClientConnections(cs, ch, cl) ==
    SelectSeq(IdSeq, LAMBDA i : cs[ch][i].state # "Uninitialized"
                                /\ cs[ch][i].client_id = cl)

\* query_connections: every connection of chain ch, with its id
Connections(cs, ch) ==
    SelectSeq(IdSeq, LAMBDA i : cs[ch][i].state # "Uninitialized")

RECURSIVE FirstPointingAt(_, _, _, _)
\* the first connection among ids whose counterparty connection id is id
FirstPointingAt(cs, ch, ids, id) ==
    IF ids = <<>> THEN None
    ELSE IF cs[ch][Head(ids)].cp_connection_id = Some(id) THEN Some(Head(ids))
    ELSE FirstPointingAt(cs, ch, Tail(ids), id)

StateOk(st) == [err |-> "", state |-> st]
StateErr(e) == [err |-> e, state |-> "Uninitialized"]

\* a faulty search: every connection of the chain is a candidate
connection_on_destination_AnyClient(cs, connection_id_on_source, counterparty_client_id, counterparty_chain) ==
    FirstPointingAt(cs, counterparty_chain, Connections(cs, counterparty_chain),
                    connection_id_on_source)

\* None, or the id of the end found, with the end behind it
connection_on_destination(cs, connection_id_on_source, counterparty_client_id, counterparty_chain) ==
    FirstPointingAt(cs, counterparty_chain,
                    ClientConnections(cs, counterparty_chain, counterparty_client_id),
                    connection_id_on_source)

\* connection: an identified end; f names the query that fails, if any
connection_state_on_destination(cs, connection, counterparty_chain, f) ==
    IF connection.connection_end.cp_connection_id # None
    THEN IF f = "d_query_connection" THEN StateErr("relayer")
         ELSE StateOk(QueryConnection(cs, counterparty_chain,
                         connection.connection_end.cp_connection_id[1]).state)
    ELSE IF f = "d_query_client_connections" THEN StateErr("relayer")
    ELSE IF f = "d_query_connection"
            /\ ClientConnections(cs, counterparty_chain,
                                 connection.connection_end.cp_client_id) # <<>>
         THEN StateErr("relayer")
    ELSE IF connection_on_destination(cs, connection.connection_id,
                connection.connection_end.cp_client_id, counterparty_chain) = None
         THEN StateOk("Uninitialized")
    ELSE StateOk(cs[counterparty_chain][
             connection_on_destination(cs, connection.connection_id,
                 connection.connection_end.cp_client_id, counterparty_chain)[1]].state)

(***************************************************************************)
(* The single-shot interface.                                              *)
(***************************************************************************)
CounterpartyCalls == <<"s_query_connection", "d_query_connection",
                       "d_query_client_connections">>

\* map_err(ConnectionError::supervisor)
MapSupervisor(x) == IF x.err # "" THEN StateErr("supervisor") ELSE x

counterparty_state(c, cs, f) ==
    IF src_connection_id(c) = None THEN StateErr("missing_local_connection_id")
    ELSE IF f = "s_query_connection" THEN StateErr("connection_query")
    ELSE MapSupervisor(connection_state_on_destination(cs,
                [connection_id |-> src_connection_id(c)[1],
                 connection_end |-> QueryConnection(cs, src_chain(c),
                                                    src_connection_id(c)[1])],
                dst_chain(c), f))

\* a faulty match: nothing is done once the counterparty has an Init end
StepAction_UninitializedOnly(state, cp) ==
    CASE state = "Init" /\ cp = "Uninitialized" -> "Try"
      [] state = "TryOpen" /\ cp = "Init" -> "Ack"
      [] state = "TryOpen" /\ cp = "TryOpen" -> "Ack"
      [] state = "Open" /\ cp = "TryOpen" -> "Confirm"
      [] OTHER -> "Nothing"

\* the arm handshake_step takes on (state, counterparty state)
StepAction(state, cp) ==
    CASE state = "Init" /\ cp = "Uninitialized" -> "Try"
      [] state = "Init" /\ cp = "Init" -> "Try"
      [] state = "TryOpen" /\ cp = "Init" -> "Ack"
      [] state = "TryOpen" /\ cp = "TryOpen" -> "Ack"
      [] state = "Open" /\ cp = "TryOpen" -> "Confirm"
      [] OTHER -> "Nothing"

StepCalls(action) ==
    CASE action = "Try" -> TryCalls
      [] action = "Ack" -> AckCalls
      [] action = "Confirm" -> ConfirmCalls
      [] OTHER -> <<>>

\* the *_and_send of an arm; every arm is called on self as it is
StepSend(action, c, cs, f, r) ==
    CASE action = "Try" -> build_conn_try_and_send(c, cs, f, r)
      [] action = "Ack" -> build_conn_ack_and_send(c, cs, f, r)
      [] action = "Confirm" -> build_conn_confirm_and_send(c, cs, f, r)
      [] OTHER -> [ok |-> TRUE, err |-> "", event |-> NoEvent, conns |-> cs,
                   sent |-> <<>>]

\* a faulty step: the id of the event is stored, as handshake does
StepReturn_StoreId(c, arm, res) ==
    [arm |-> arm, err |-> res.err,
     events |-> IF arm = "Nothing" \/ ~res.ok THEN <<>> ELSE <<res.event>>,
     conns |-> res.conns, sent |-> res.sent,
     connection |-> IF arm = "Try" /\ res.ok
                    THEN [c EXCEPT !.b_side.connection_id =
                                       extract_connection_id(res.event)]
                    ELSE c]

\* handshake_step once counterparty_state returned cp: the arm taken, its
\* error if any, the events returned, the ledgers, the batches submitted and
\* self as the call leaves it
StepReturn(c, arm, res) ==
    [arm |-> arm, err |-> res.err,
     events |-> IF arm = "Nothing" \/ ~res.ok THEN <<>> ELSE <<res.event>>,
     conns |-> res.conns, sent |-> res.sent, connection |-> c]

handshake_step(c, cs, state, cp, f, r) ==
    StepReturn(c, StepAction(state, cp), StepSend(StepAction(state, cp), c, cs, f, r))

\* the state step_event passes to step_state, and step_state to
\* handshake_step
EventState(event) ==
    CASE event.kind = "OpenInitConnection" -> "Init"
      [] event.kind = "OpenTryConnection" -> "TryOpen"
      [] event.kind = "OpenAckConnection" -> "Open"
      [] event.kind = "OpenConfirmConnection" -> "Open"
      [] OTHER -> "Uninitialized"

\* a faulty verdict: the retry starts over from index zero
RetryResult_Zero(e, index) == IF e # "" THEN <<"Retry", 0>> ELSE <<"Ok">>

\* the RetryResult step_state makes of what handshake_step returned
RetryResult(e, index) == IF e # "" THEN <<"Retry", index>> ELSE <<"Ok">>

\* step_state once counterparty_state returned cp: what handshake_step did,
\* and the verdict
step_state(c, cs, state, index, cp, f, r) ==
    CHOOSE out \in {[step |-> res, verdict |-> RetryResult(res.err, index)] :
                       res \in {handshake_step(c, cs, state, cp, f, r)}} : TRUE

step_event(c, cs, event, index, cp, f, r) ==
    step_state(c, cs, EventState(event), index, cp, f, r)

\* restore_from_state: the Connection and the state it returns, or the error
RestoreCalls == <<"r_query_connection", "r_query_connections">>

\* a faulty search: the client of the counterparty's connection is not looked at
RestoreMirror_AnyClient(cs, counterparty_chain, a_connection, src_id) ==
    FirstPointingAt(cs, counterparty_chain, Connections(cs, counterparty_chain), src_id)

\* the mirror restore_from_state looks for on the counterparty chain
RestoreMirror(cs, counterparty_chain, a_connection, src_id) ==
    FirstPointingAt(cs, counterparty_chain,
                    SelectSeq(Connections(cs, counterparty_chain),
                              LAMBDA i : cs[counterparty_chain][i].client_id
                                            = a_connection.cp_client_id),
                    src_id)

restore_from_state(cs, chain, counterparty_chain, src_id, f) ==
    LET a_connection == QueryConnection(cs, chain, src_id)
        enumerate == a_connection.state = "Init" /\ a_connection.cp_connection_id = None
    IN IF f = "r_query_connection"
       THEN [err |-> "relayer", connection |-> NoEngine, state |-> "Uninitialized"]
       ELSE IF enumerate /\ f = "r_query_connections"
       THEN [err |-> "relayer", connection |-> NoEngine, state |-> "Uninitialized"]
       ELSE [err |-> "",
             connection |->
                Connection(a_connection.delay_period,
                           ConnectionSide(chain, a_connection.client_id, Some(src_id)),
                           ConnectionSide(counterparty_chain, a_connection.cp_client_id,
                                IF enumerate
                                   /\ RestoreMirror(cs, counterparty_chain,
                                                    a_connection, src_id) # None
                                THEN RestoreMirror(cs, counterparty_chain,
                                                   a_connection, src_id)
                                ELSE a_connection.cp_connection_id)),
             state |-> a_connection.state]

\* a faulty match: finished as soon as the a end is open
DriveAction_OpenEarly(state_a, state_b) ==
    CASE state_a = "Init" /\ state_b = "TryOpen" -> "AckA"
      [] state_a = "TryOpen" /\ state_b = "TryOpen" -> "AckA"
      [] state_a = "Open" /\ state_b = "TryOpen" -> "Done"
      [] state_a = "TryOpen" /\ state_b = "Open" -> "ConfirmA"
      [] state_a = "Open" /\ state_b = "Open" -> "Done"
      [] OTHER -> "Noop"

\* a faulty match: the two Confirm arms exchanged
DriveAction_Swapped(state_a, state_b) ==
    CASE state_a = "Init" /\ state_b = "TryOpen" -> "AckA"
      [] state_a = "TryOpen" /\ state_b = "TryOpen" -> "AckA"
      [] state_a = "Open" /\ state_b = "TryOpen" -> "ConfirmA"
      [] state_a = "TryOpen" /\ state_b = "Open" -> "ConfirmB"
      [] state_a = "Open" /\ state_b = "Open" -> "Done"
      [] OTHER -> "Noop"

DriveAction(state_a, state_b) ==
    CASE state_a = "Init" /\ state_b = "TryOpen" -> "AckA"
      [] state_a = "TryOpen" /\ state_b = "TryOpen" -> "AckA"
      [] state_a = "Open" /\ state_b = "TryOpen" -> "ConfirmB"
      [] state_a = "TryOpen" /\ state_b = "Open" -> "ConfirmA"
      [] state_a = "Open" /\ state_b = "Open" -> "Done"
      [] OTHER -> "Noop"

\* a faulty loop condition: one iteration short
LoopAgain_OneLess(n) == n < MAX_RETRIES - 1

\* a faulty loop condition: two iterations only
LoopAgain_Twice(n) == n < 2

\* a faulty loop condition: one iteration too many
LoopAgain_Inclusive(n) == n <= MAX_RETRIES

\* the loop condition of handshake's three loops
LoopAgain(n) == n < MAX_RETRIES

(***************************************************************************)
(* Bookkeeping of the run.                                                 *)
(***************************************************************************)
RECURSIVE AddAll(_, _)
AddAll(bag, batches) ==
    IF batches = <<>> THEN bag
    ELSE LET b == Head(batches)
             n == IF b \in DOMAIN bag THEN bag[b] ELSE 0
         IN AddAll([x \in DOMAIN bag \cup {b} |-> IF x = b THEN n + 1 ELSE bag[x]],
                   Tail(batches))

\* the handshake message of a batch, if it holds one
Handshake(b) ==
    LET hs == SelectSeq(b.msgs, LAMBDA m : m.type # "UpdateClient")
    IN IF hs = <<>> THEN <<>> ELSE <<[type |-> hs[1].type, chain |-> b.chain]>>

RECURSIVE Extend(_, _)
Extend(t, batches) ==
    IF batches = <<>> THEN t
    ELSE LET h == Handshake(Head(batches))
         IN Extend(IF h = <<>> \/ (t # <<>> /\ t[Len(t)] = h[1]) THEN t ELSE t \o h,
                   Tail(batches))

\* how often a message of type ty was handed to send_msgs of chain ch
Submitted(ty, ch) ==
    LET S == {b \in DOMAIN sent :
                 b.chain = ch /\ \E i \in DOMAIN b.msgs : b.msgs[i].type = ty}
        RECURSIVE Sum(_)
        Sum(T) == IF T = {} THEN 0
                  ELSE LET b == CHOOSE x \in T : TRUE IN sent[b] + Sum(T \ {b})
    IN Sum(S)

\* batches handed to send_msgs so far
Submissions ==
    LET RECURSIVE Sum(_)
        Sum(T) == IF T = {} THEN 0
                  ELSE LET b == CHOOSE x \in T : TRUE IN sent[b] + Sum(T \ {b})
    IN Sum(DOMAIN sent)

Log(batches) ==
    /\ sent' = AddAll(sent, batches)
    /\ trail' = Extend(trail, batches)

Step(name, e, batches) == [step |-> name, err |-> e, sent |-> batches]

(***************************************************************************)
(* The environment's choices: which call of a builder fails, and how the   *)
(* destination answers the submission.                                     *)
(***************************************************************************)
BadResponses == {"submit_error", "chain_error", "no_event", "no_id"}

CanFault == ~healthy /\ faults < MaxFaults

Choices(calls) ==
    {<<"none", "ok">>} \cup
    IF CanFault
    THEN {<<calls[i], "ok">> : i \in DOMAIN calls} \cup
         {<<"none", r>> : r \in BadResponses}
    ELSE {}

Count(ch) == IF ch = <<"none", "ok">> THEN faults ELSE faults + 1

(***************************************************************************)
(* The entry points.                                                       *)
(***************************************************************************)
\* new, up to its call of handshake
New ==
    /\ pc = "start" /\ op = "new"
    /\ IF validate_clients(args.a_client, args.b_client) # "Ok"
       THEN /\ result' = validate_clients(args.a_client, args.b_client)
            /\ pc' = "done"
            /\ engine' = engine
       ELSE IF DelayTooLong(args.delay_period)
       THEN /\ result' = "max_delay_period"
            /\ pc' = "done"
            /\ engine' = engine
       ELSE /\ engine' = NewConnection(args.a_client, args.b_client, args.delay_period)
            /\ pc' = "init"
            /\ result' = result
    /\ counter' = 0
    /\ UNCHANGED <<conns, op, args, observed, last, sent, trail, healthy, faults,
                   racers>>

Find ==
    /\ pc = "start" /\ op = "find"
    /\ \E r \in {find(args.a_client, args.b_client, args.conn_end_a)} :
          /\ result' = r.err
          /\ engine' = r.connection
    /\ pc' = "done"
    /\ UNCHANGED <<conns, op, args, counter, observed, last, sent, trail, healthy,
                   faults, racers>>

(***************************************************************************)
(* handshake.  One step per attempt of its first and second loop; its     *)
(* third loop reads the two ends in one step and acts on them in the next. *)
(***************************************************************************)
\* faulty stores: the id lands on the other side
StoreA_OnB(c, id) == [c EXCEPT !.b_side.connection_id = id]
StoreB_OnA(c, id) == [c EXCEPT !.a_side.connection_id = id]

\* self.a_side.connection_id = Some(connection_id)
StoreA(c, id) == [c EXCEPT !.a_side.connection_id = id]
\* self.b_side.connection_id = Some(connection_id)
StoreB(c, id) == [c EXCEPT !.b_side.connection_id = id]

\* Try connOpenInit on a_chain
ConnInit ==
    /\ pc = "init"
    /\ \E ch \in Choices(InitCalls) :
       \E res \in {build_conn_init_and_send(flipped(engine), conns, ch[1], ch[2])} :
       \E id \in {extract_connection_id(res.event)} :
            /\ conns' = res.conns
            /\ Log(res.sent)
            /\ faults' = Count(ch)
            /\ IF ~res.ok
               THEN /\ last' = Step("OpenInit", res.err, res.sent)
                    /\ UNCHANGED <<engine, result>>
                    /\ IF LoopAgain(counter + 1)
                       THEN pc' = "init" /\ counter' = counter + 1
                       ELSE pc' = "try" /\ counter' = 0
               ELSE IF id = None
               THEN /\ last' = Step("OpenInit", "missing_connection_id_from_event",
                                    res.sent)
                    /\ result' = "missing_connection_id_from_event"
                    /\ pc' = "done"
                    /\ counter' = counter + 1
                    /\ engine' = engine
               ELSE /\ last' = Step("OpenInit", "", res.sent)
                    /\ engine' = StoreA(engine, id)
                    /\ pc' = "try"
                    /\ counter' = 0
                    /\ result' = result
    /\ UNCHANGED <<op, args, observed, healthy, racers>>

\* Try connOpenTry on b_chain
ConnTry ==
    /\ pc = "try"
    /\ \E ch \in Choices(TryCalls) :
       \E res \in {build_conn_try_and_send(engine, conns, ch[1], ch[2])} :
       \E id \in {extract_connection_id(res.event)} :
            /\ conns' = res.conns
            /\ Log(res.sent)
            /\ faults' = Count(ch)
            /\ IF ~res.ok
               THEN /\ last' = Step("OpenTry", res.err, res.sent)
                    /\ UNCHANGED <<engine, result>>
                    /\ IF LoopAgain(counter + 1)
                       THEN pc' = "try" /\ counter' = counter + 1
                       ELSE pc' = "drive" /\ counter' = 0
               ELSE IF id = None
               THEN /\ last' = Step("OpenTry", "missing_connection_id_from_event",
                                    res.sent)
                    /\ result' = "missing_connection_id_from_event"
                    /\ pc' = "done"
                    /\ counter' = counter + 1
                    /\ engine' = engine
               ELSE /\ last' = Step("OpenTry", "", res.sent)
                    /\ engine' = StoreB(engine, id)
                    /\ pc' = "drive"
                    /\ counter' = 0
                    /\ result' = result
    /\ UNCHANGED <<op, args, observed, healthy, racers>>

\* a faulty requirement: one error for either id
DriveIds_OneError(c) ==
    IF src_connection_id(c) = None \/ dst_connection_id(c) = None
    THEN "missing_local_connection_id"
    ELSE "Ok"

\* a faulty id check: the counterparty id is looked at first
DriveIds_DstFirst(c) ==
    IF dst_connection_id(c) = None THEN "missing_counterparty_connection_id"
    ELSE IF src_connection_id(c) = None THEN "missing_local_connection_id"
    ELSE "Ok"

\* the ids the third loop requires at the head of every iteration
DriveIds(c) ==
    IF src_connection_id(c) = None THEN "missing_local_connection_id"
    ELSE IF dst_connection_id(c) = None THEN "missing_counterparty_connection_id"
    ELSE "Ok"

\* the end of an iteration that did not return
Continue(n) ==
    IF LoopAgain(n)
    THEN pc' = "drive" /\ result' = result
    ELSE pc' = "done" /\ result' = "max_retry"

\* head of an iteration of the third loop: counter += 1, both queries
DriveQuery ==
    /\ pc = "drive"
    /\ counter' = counter + 1
    /\ IF DriveIds(engine) # "Ok"
       THEN /\ result' = DriveIds(engine)
            /\ pc' = "done"
            /\ last' = Step("Query", DriveIds(engine), <<>>)
            /\ UNCHANGED <<observed, faults>>
       ELSE \E q \in {"none"} \cup (IF CanFault THEN {"query_a", "query_b"} ELSE {}) :
              IF q # "none"
              THEN /\ last' = Step("Query", q, <<>>)
                   /\ faults' = faults + 1
                   /\ observed' = observed
                   /\ Continue(counter + 1)
              ELSE /\ observed' =
                         <<QueryConnection(conns, engine.a_side.chain,
                                           src_connection_id(engine)[1]).state,
                           QueryConnection(conns, engine.b_side.chain,
                                           dst_connection_id(engine)[1]).state>>
                   /\ last' = Step("Query", "", <<>>)
                   /\ pc' = "dispatch"
                   /\ UNCHANGED <<result, faults>>
    /\ UNCHANGED <<conns, op, args, engine, sent, trail, healthy, racers>>

\* the calls of the step the third loop takes on a pair
DriveCalls(action) ==
    CASE action = "AckA" -> AckCalls
      [] action \in {"ConfirmA", "ConfirmB"} -> ConfirmCalls
      [] OTHER -> <<>>

\* the step the third loop takes on a pair
DriveStep(action, c, cs, f, r) ==
    CASE action = "AckA" -> build_conn_ack_and_send(flipped(c), cs, f, r)
      [] action = "ConfirmB" -> build_conn_confirm_and_send(c, cs, f, r)
      [] action = "ConfirmA" -> build_conn_confirm_and_send(flipped(c), cs, f, r)
      [] OTHER -> [ok |-> TRUE, err |-> "", event |-> NoEvent, conns |-> cs,
                   sent |-> <<>>]

\* body of an iteration of the third loop: the match on the pair
DriveDispatch ==
    /\ pc = "dispatch"
    /\ \E action \in {DriveAction(observed[1], observed[2])} :
          IF action = "Done"
          THEN /\ result' = "Ok"
               /\ pc' = "done"
               /\ last' = Step("Done", "", <<>>)
               /\ UNCHANGED <<conns, sent, trail, faults>>
          ELSE \E ch \in (IF action = "Noop" THEN {<<"none", "ok">>}
                          ELSE Choices(DriveCalls(action))) :
               \E res \in {DriveStep(action, engine, conns, ch[1], ch[2])} :
                    /\ conns' = res.conns
                    /\ Log(res.sent)
                    /\ faults' = Count(ch)
                    /\ last' = Step(action, res.err, res.sent)
                    /\ Continue(counter)
    /\ UNCHANGED <<op, args, engine, counter, observed, healthy, racers>>

(***************************************************************************)
(* Initial states: the arguments of the call and the ledgers it meets.     *)
(***************************************************************************)
\* an end other parties opened, between clients of their own
ForeignEnd == ConnectionEnd("Open", "client-x", "client-y", Some(0), ZERO_DURATION)

\* the ledgers with na (nb) foreign connections on chainA (chainB)
Ledgers(na, nb) ==
    [ch \in ChainIds |->
        [i \in ConnIds |->
            IF i < (IF ch = "chainA" THEN na ELSE nb) THEN ForeignEnd ELSE NoEnd]]

Delays == {Duration(10, 0), MAX_PACKET_DELAY,
           Duration(MAX_PACKET_DELAY_SECS, 1), Duration(MAX_PACKET_DELAY_SECS + 1, 0)}

\* by symmetry the host of a_client is chainA
ClientPairs ==
    {<<ForeignClient("client-a", "chainA", s1), ForeignClient("client-b", d2, s2)>> :
        s1 \in ChainIds, d2 \in ChainIds, s2 \in ChainIds}

NoIdentifiedEnd == [connection_id |-> 0, connection_end |-> NoEnd]

FindEnds ==
    {[connection_id |-> i,
      connection_end |-> ConnectionEnd(st, cl, cpcl, cp, Duration(10, 0))] :
        i \in 0 .. 1, st \in States, cl \in ClientIds, cpcl \in ClientIds,
        cp \in {None, Some(0), Some(1)}}

Args(p, d, e) ==
    [a_client |-> p[1], b_client |-> p[2], delay_period |-> d, conn_end_a |-> e]

EmptyBag == [x \in {} |-> 0]

InitRun ==
    /\ engine = NoEngine
    /\ pc = "start"
    /\ counter = 0
    /\ observed = <<>>
    /\ last = Step("", "", <<>>)
    /\ result = ""
    /\ sent = EmptyBag
    /\ trail = <<>>
    /\ faults = 0
    /\ racers = <<>>

\* the pairs of clients that serve the same two chains, each in one direction
MutualPairs ==
    {<<ForeignClient("client-a", "chainA", y), ForeignClient("client-b", y, "chainA")>> :
        y \in ChainIds}

\* new is called on chains that answer every call
InitNewHealthy ==
    /\ InitRun
    /\ op = "new"
    /\ healthy = TRUE
    /\ args \in {Args(p, d, NoIdentifiedEnd) : p \in ClientPairs, d \in Delays}
    /\ conns \in {Ledgers(na, nb) : na \in 0 .. MaxPre, nb \in 0 .. MaxPre}

\* new is called on chains whose calls may fail
InitNewFailing ==
    /\ InitRun
    /\ op = "new"
    /\ healthy = FALSE
    /\ args \in {Args(p, Duration(10, 0), NoIdentifiedEnd) : p \in MutualPairs}
    /\ conns = Ledgers(0, MaxPre)

\* new or find is called once.  Every argument is tried against healthy
\* ledgers; failing calls are explored for one delay and one pair of ledgers.
Init ==
    \/ InitNewHealthy
    \/ InitNewFailing
    \/ /\ InitRun
       /\ op = "find"
       /\ healthy = TRUE
       /\ args \in {Args(p, ZERO_DURATION, e) : p \in ClientPairs, e \in FindEnds}
       /\ conns = Ledgers(0, 0)

Next == New \/ Find \/ ConnInit \/ ConnTry \/ DriveQuery \/ DriveDispatch

Spec == Init /\ [][Next]_vars

(***************************************************************************)
(* handshake's third loop on every pair of states the two queries can      *)
(* return: the engine holds both ids, as after its first two loops.        *)
(***************************************************************************)
\* the engine after its first two loops: conn 0 on chainA, conn MaxPre on chainB
DriveEngine ==
    Connection(Duration(10, 0),
               ConnectionSide("chainA", "client-a", Some(0)),
               ConnectionSide("chainB", "client-b", Some(MaxPre)))

\* an end of the engine's connection in state st
EndIn(st, cl, cpcl, cp) ==
    IF st = "Uninitialized" THEN NoEnd
    ELSE ConnectionEnd(st, cl, cpcl, IF st = "Init" THEN None ELSE Some(cp),
                       Duration(10, 0))

\* the ledgers holding the engine's two ends in states sa and sb
DriveLedgers(sa, sb) ==
    [Ledgers(0, MaxPre) EXCEPT
        !["chainA"][0] = EndIn(sa, "client-a", "client-b", MaxPre),
        !["chainB"][MaxPre] = EndIn(sb, "client-b", "client-a", 0)]

HandshakeArgs ==
    Args(<<ForeignClient("client-a", "chainA", "chainB"),
           ForeignClient("client-b", "chainB", "chainA")>>,
         Duration(10, 0), NoIdentifiedEnd)

InitDrive ==
    /\ op = "handshake"
    /\ args = HandshakeArgs
    /\ engine = DriveEngine
    /\ pc = "drive"
    /\ counter = 0
    /\ observed = <<>>
    /\ last = Step("", "", <<>>)
    /\ result = ""
    /\ sent = EmptyBag
    /\ trail = <<>>
    /\ faults = 0
    /\ racers = <<>>
    /\ healthy \in BOOLEAN
    /\ conns \in {DriveLedgers(sa, sb) : sa \in States, sb \in States}

NextDrive == DriveQuery \/ DriveDispatch

SpecDrive == InitDrive /\ [][NextDrive]_vars

(***************************************************************************)
(* handshake run again on an engine whose connection is open on both       *)
(* chains.                                                                 *)
(***************************************************************************)
InitRerun ==
    /\ op = "handshake"
    /\ args = HandshakeArgs
    /\ engine = DriveEngine
    /\ pc = "init"
    /\ counter = 0
    /\ observed = <<>>
    /\ last = Step("", "", <<>>)
    /\ result = ""
    /\ sent = EmptyBag
    /\ trail = <<>>
    /\ faults = 0
    /\ racers = <<>>
    /\ healthy \in BOOLEAN
    /\ conns = DriveLedgers("Open", "Open")

NextRerun == ConnInit \/ ConnTry \/ DriveQuery \/ DriveDispatch

SpecRerun == InitRerun /\ [][NextRerun]_vars

(***************************************************************************)
(* new on healthy chains.  The engine runs without pause and every call it *)
(* makes returns, so a step that can be taken is taken.                    *)
(***************************************************************************)
NextNew == New \/ ConnInit \/ ConnTry \/ DriveQuery \/ DriveDispatch

SpecHealthy == InitNewHealthy /\ [][NextNew]_vars /\ WF_vars(NextNew)

\* new on chains whose calls may fail; every call returns, so the engine
\* still takes every step it can take
SpecFailing == InitNewFailing /\ [][NextNew]_vars /\ WF_vars(NextNew)

(***************************************************************************)
(* Two relayers in the third loop of handshake, each with a Connection     *)
(* holding the same two ids, on healthy chains.  A relayer reads the a     *)
(* end, reads the b end, builds its message and submits it in separate     *)
(* steps; the other relayer may act between any two of them.               *)
(***************************************************************************)
Racers == {1, 2}

NoBuild == BuildErr("", <<>>)

\* a relayer at the head of the loop
FreshRacer ==
    [pc |-> "drive", counter |-> 0, a_state |-> "", b_state |-> "",
     built |-> NoBuild, failed |-> 0, result |-> ""]

\* the Connection the builder of a step of the third loop is called on
DriveSide(action, c) == IF action \in {"AckA", "ConfirmA"} THEN flipped(c) ELSE c

\* the builder of a step of the third loop, every call succeeding
DriveBuild(action, c, cs) ==
    IF action = "AckA" THEN build_conn_ack(DriveSide(action, c), cs, "none")
    ELSE build_conn_confirm(DriveSide(action, c), cs, "none")

\* the event a step of the third loop looks for, and the error without it
OwnEvent(action) ==
    IF action = "AckA" THEN "OpenAckConnection" ELSE "OpenConfirmConnection"
MissingEvent(action) ==
    IF action = "AckA" THEN "missing_connection_ack_event"
    ELSE "missing_connection_confirm_event"

\* the end of an iteration that did not return
RaceContinue(r) ==
    IF LoopAgain(r.counter) THEN [r EXCEPT !.pc = "drive"]
    ELSE [r EXCEPT !.pc = "done", !.result = "max_retry"]

\* head of an iteration: counter += 1, the id checks, query of the a end
QueryA(i) ==
    /\ pc = "race" /\ racers[i].pc = "drive"
    /\ racers' = [racers EXCEPT ![i] =
          IF DriveIds(engine) # "Ok"
          THEN [@ EXCEPT !.counter = @ + 1, !.pc = "done", !.result = DriveIds(engine)]
          ELSE [@ EXCEPT !.counter = @ + 1, !.pc = "query_b",
                         !.a_state = QueryConnection(conns, engine.a_side.chain,
                                                     src_connection_id(engine)[1]).state]]
    /\ UNCHANGED <<conns, op, args, engine, pc, counter, observed, last, result, sent,
                   trail, healthy, faults>>

\* query of the b end
QueryB(i) ==
    /\ pc = "race" /\ racers[i].pc = "query_b"
    /\ racers' = [racers EXCEPT ![i] =
          [@ EXCEPT !.pc = "dispatch",
                    !.b_state = QueryConnection(conns, engine.b_side.chain,
                                                dst_connection_id(engine)[1]).state]]
    /\ UNCHANGED <<conns, op, args, engine, pc, counter, observed, last, result, sent,
                   trail, healthy, faults>>

\* the match on the pair, and the builder of the arm taken
Build(i) ==
    /\ pc = "race" /\ racers[i].pc = "dispatch"
    /\ \E action \in {DriveAction(racers[i].a_state, racers[i].b_state)} :
          IF action \in {"Done", "Noop"}
          THEN /\ racers' = [racers EXCEPT ![i] =
                     IF action = "Done"
                     THEN [@ EXCEPT !.pc = "done", !.result = "Ok"]
                     ELSE RaceContinue(@)]
               /\ UNCHANGED <<sent, trail>>
          ELSE \E b \in {DriveBuild(action, engine, conns)} :
               /\ Log(b.src_sent)
               /\ racers' = [racers EXCEPT ![i] =
                     IF b.ok
                     THEN [@ EXCEPT !.pc = "send", !.built = [b EXCEPT !.src_sent = <<>>]]
                     ELSE RaceContinue([@ EXCEPT !.failed = @ + 1])]
    /\ UNCHANGED <<conns, op, args, engine, pc, counter, observed, last, result,
                   healthy, faults>>

\* submission of the batch built, and the walk over the events returned
Send(i) ==
    /\ pc = "race" /\ racers[i].pc = "send"
    /\ \E action \in {DriveAction(racers[i].a_state, racers[i].b_state)} :
       \E res \in {AndSend(DriveSide(action, engine), conns, racers[i].built, "ok",
                           OwnEvent(action), MissingEvent(action))} :
          /\ conns' = res.conns
          /\ Log(res.sent)
          /\ racers' = [racers EXCEPT ![i] =
                RaceContinue([@ EXCEPT !.built = NoBuild,
                                       !.failed = IF res.ok THEN @ ELSE @ + 1])]
    /\ UNCHANGED <<op, args, engine, pc, counter, observed, last, result, healthy,
                   faults>>

RaceQueryA == \E i \in Racers : QueryA(i)
RaceQueryB == \E i \in Racers : QueryB(i)
RaceBuild == \E i \in Racers : Build(i)
RaceSend == \E i \in Racers : Send(i)

\* the pairs from which the third loop can bring both ends to Open
RacePairs == {<<"Init", "TryOpen">>, <<"TryOpen", "TryOpen">>,
              <<"Open", "TryOpen">>, <<"TryOpen", "Open">>}

InitRace ==
    /\ op = "handshake"
    /\ args = HandshakeArgs
    /\ engine = DriveEngine
    /\ pc = "race"
    /\ counter = 0
    /\ observed = <<>>
    /\ last = Step("", "", <<>>)
    /\ result = ""
    /\ sent = EmptyBag
    /\ trail = <<>>
    /\ faults = 0
    /\ healthy = TRUE
    /\ racers = [i \in Racers |-> FreshRacer]
    /\ conns \in {DriveLedgers(p[1], p[2]) : p \in RacePairs}

NextRace == RaceQueryA \/ RaceQueryB \/ RaceBuild \/ RaceSend

\* each relayer runs on its own: a step it can take is eventually taken
SpecRace ==
    /\ InitRace /\ [][NextRace]_vars
    /\ \A i \in Racers : WF_vars(QueryA(i) \/ QueryB(i) \/ Build(i) \/ Send(i))

(***************************************************************************)
(* The worker's path: restore_from_state on a connection of chainA, then   *)
(* one handshake_step with the state the worker saw.                       *)
(***************************************************************************)
\* the ends chainA may hold under the id the worker names
LocalEnds ==
    {NoEnd, ConnectionEnd("Init", "client-a", "client-b", None, Duration(10, 0))} \cup
    {ConnectionEnd(st, "client-a", "client-b", Some(k), Duration(10, 0)) :
        st \in {"TryOpen", "Open"}, k \in ConnIds}

\* the ends chainB may hold: mirrors of connection 0 of chainA under the
\* right client or under another one, and ends that point elsewhere
RemoteEnds ==
    {NoEnd} \cup
    {ConnectionEnd("Init", cl, "client-a", None, Duration(10, 0)) :
        cl \in {"client-b", "client-x"}} \cup
    {ConnectionEnd(st, cl, "client-a", Some(0), Duration(10, 0)) :
        st \in {"TryOpen", "Open"}, cl \in {"client-b", "client-x"}} \cup
    {ConnectionEnd("TryOpen", cl, "client-a", Some(1), Duration(10, 0)) :
        cl \in {"client-b", "client-x"}}

\* chainA holds a under id 0, chainB holds b0 and b1 under ids 0 and 1
StepLedgers(a, b0, b1) ==
    [Ledgers(0, 0) EXCEPT !["chainA"][0] = a,
                          !["chainB"][0] = b0,
                          !["chainB"][1] = b1]

InitStep ==
    /\ op = "restore_from_state"
    /\ args = [chain |-> "chainA", counterparty_chain |-> "chainB",
               src_connection_id |-> 0]
    /\ engine = NoEngine
    /\ pc = "start"
    /\ counter = 0
    /\ observed = <<>>
    /\ last = Step("", "", <<>>)
    /\ result = ""
    /\ sent = EmptyBag
    /\ trail = <<>>
    /\ faults = 0
    /\ racers = <<>>
    /\ healthy \in BOOLEAN
    /\ conns \in {StepLedgers(a, b0, b1) :
                     a \in LocalEnds, b0 \in RemoteEnds, b1 \in RemoteEnds}

\* what a call returned: the step, its error, the batches it submitted and
\* the events it handed back
Outcome(name, e, batches, events) ==
    [step |-> name, err |-> e, sent |-> batches, events |-> events]

RestoreFromState ==
    /\ pc = "start" /\ op = "restore_from_state"
    /\ \E f \in {"none"} \cup
                (IF CanFault THEN {RestoreCalls[i] : i \in DOMAIN RestoreCalls} ELSE {}) :
       \E r \in {restore_from_state(conns, args.chain, args.counterparty_chain,
                                    args.src_connection_id, f)} :
          /\ faults' = IF f = "none" THEN faults ELSE faults + 1
          /\ last' = Outcome("restore_from_state", r.err, <<>>, <<>>)
          /\ IF r.err # ""
             THEN /\ result' = r.err
                  /\ pc' = "done"
                  /\ UNCHANGED <<engine, observed>>
             ELSE /\ engine' = r.connection
                  /\ observed' = <<r.state>>
                  /\ pc' = "step"
                  /\ result' = result
    /\ UNCHANGED <<conns, op, args, counter, sent, trail, healthy, racers>>

\* handshake_step(state), for every state the worker may pass
HandshakeStep ==
    /\ pc = "step"
    /\ \E state \in States :
       \E cf \in {"none"} \cup
                 (IF CanFault THEN {CounterpartyCalls[i] : i \in DOMAIN CounterpartyCalls}
                  ELSE {}) :
       \E cp \in {counterparty_state(engine, conns, cf)} :
          IF cp.err # ""
          THEN /\ result' = cp.err
               /\ last' = Outcome("counterparty_state", cp.err, <<>>, <<>>)
               /\ observed' = <<state>>
               /\ faults' = IF cf = "none" THEN faults ELSE faults + 1
               /\ UNCHANGED <<conns, sent, trail, engine>>
          ELSE \E ch \in (IF cf = "none" THEN Choices(StepCalls(StepAction(state, cp.state)))
                          ELSE {<<"none", "ok">>}) :
               \E res \in {handshake_step(engine, conns, state, cp.state, ch[1], ch[2])} :
                  /\ conns' = res.conns
                  /\ Log(res.sent)
                  /\ faults' = Count(ch)
                  /\ observed' = <<state, cp.state>>
                  /\ last' = Outcome(res.arm, res.err, res.sent, res.events)
                  /\ result' = IF res.err = "" THEN "Ok" ELSE res.err
                  /\ engine' = res.connection
    /\ pc' = "done"
    /\ UNCHANGED <<op, args, counter, healthy, racers>>

NextStep == RestoreFromState \/ HandshakeStep

SpecStep == InitStep /\ [][NextStep]_vars

(***************************************************************************)
(* The worker with an event: restore_from_state as above, then one         *)
(* step_event(event, index).                                               *)
(***************************************************************************)
ConnectionEventKinds ==
    {"OpenInitConnection", "OpenTryConnection", "OpenAckConnection",
     "OpenConfirmConnection"}

\* one event of every kind; step_event looks at the kind only
WorkerEvents ==
    {Event(k, Some(0), "client-a", None, "client-b") : k \in ConnectionEventKinds}
    \cup {ChainErrorEvent, UpdateClientEvent}

\* the index of the retry the worker is in
RetryIndices == {0, 7}

\* step_event(event, index); observed keeps the event, the index and the
\* state counterparty_state returned, result the verdict
WorkerStepEvent ==
    /\ pc = "step"
    /\ \E event \in WorkerEvents, index \in RetryIndices :
       \E cf \in {"none"} \cup
                 (IF CanFault THEN {CounterpartyCalls[i] : i \in DOMAIN CounterpartyCalls}
                  ELSE {}) :
       \E cp \in {counterparty_state(engine, conns, cf)} :
          IF cp.err # ""
          THEN /\ result' = RetryResult(cp.err, index)
               /\ last' = Outcome("counterparty_state", cp.err, <<>>, <<>>)
               /\ observed' = <<event, index>>
               /\ faults' = IF cf = "none" THEN faults ELSE faults + 1
               /\ UNCHANGED <<conns, sent, trail, engine>>
          ELSE \E ch \in (IF cf = "none"
                          THEN Choices(StepCalls(StepAction(EventState(event), cp.state)))
                          ELSE {<<"none", "ok">>}) :
               \E res \in {step_event(engine, conns, event, index, cp.state,
                                      ch[1], ch[2])} :
                  /\ conns' = res.step.conns
                  /\ Log(res.step.sent)
                  /\ faults' = Count(ch)
                  /\ observed' = <<event, index, cp.state>>
                  /\ last' = Outcome(res.step.arm, res.step.err, res.step.sent,
                                     res.step.events)
                  /\ result' = res.verdict
                  /\ engine' = res.step.connection
    /\ pc' = "done"
    /\ UNCHANGED <<op, args, counter, healthy, racers>>

NextWorker == RestoreFromState \/ WorkerStepEvent

SpecWorker == InitStep /\ [][NextWorker]_vars

(***************************************************************************)
(* validated_expected_connection on every destination end.                 *)
(***************************************************************************)
\* the Connections the validation is called on: as built, flipped, and
\* without a source connection id
ValidateEngines ==
    {DriveEngine, flipped(DriveEngine),
     Connection(Duration(10, 0), ConnectionSide("chainA", "client-a", None),
                ConnectionSide("chainB", "client-b", Some(MaxPre)))}

\* the ends the destination may hold under the destination connection id
DestinationEnds ==
    {NoEnd} \cup
    {ConnectionEnd(st, cl, cpcl, cp, Duration(10, 0)) :
        st \in States \ {"Uninitialized"}, cl \in ClientIds, cpcl \in ClientIds,
        cp \in {None, Some(0), Some(MaxPre)}}

InitValidate ==
    /\ op = "validated_expected_connection"
    /\ args \in {[msg_type |-> t] : t \in {"OpenAck", "OpenConfirm"}}
    /\ engine \in ValidateEngines
    /\ pc = "start"
    /\ counter = 0
    /\ observed = <<>>
    /\ last = Step("", "", <<>>)
    /\ result = ""
    /\ sent = EmptyBag
    /\ trail = <<>>
    /\ faults = 0
    /\ racers = <<>>
    /\ healthy \in BOOLEAN
    /\ \E e \in DestinationEnds :
          conns = [Ledgers(0, 0) EXCEPT
                      ![dst_chain(engine)][dst_connection_id(engine)[1]] = e]

Validate ==
    /\ pc = "start" /\ op = "validated_expected_connection"
    /\ \E f \in {"none"} \cup
                (IF CanFault THEN {ValidateCalls[i] : i \in DOMAIN ValidateCalls} ELSE {}) :
          /\ result' = validated_expected_connection(engine, conns, f, args.msg_type)
          /\ last' = Step("validated_expected_connection", f, <<>>)
          /\ faults' = IF f = "none" THEN faults ELSE faults + 1
    /\ pc' = "done"
    /\ UNCHANGED <<conns, op, args, engine, counter, observed, sent, trail, healthy,
                   racers>>

NextValidate == Validate

SpecValidate == InitValidate /\ [][NextValidate]_vars

(***************************************************************************)
(* The four *_and_send on every list of events send_msgs may return.       *)
(***************************************************************************)
MaxEvents == 3

EventKinds == {"OpenInitConnection", "OpenTryConnection", "OpenAckConnection",
               "OpenConfirmConnection", "ChainError", "UpdateClient"}

\* the event of kind k at position i of a list; connection events carry i as
\* their connection id
EventAt(k, i) ==
    IF k = "ChainError" THEN ChainErrorEvent
    ELSE IF k = "UpdateClient" THEN UpdateClientEvent
    ELSE Event(k, Some(i), "client-a", None, "client-b")

EventLists ==
    UNION {{[i \in 1 .. n |-> EventAt(ks[i], i)] : ks \in [1 .. n -> EventKinds]} :
              n \in 0 .. MaxEvents}

\* the event each *_and_send looks for, and its error when there is none
EventOf(step) ==
    CASE step = "OpenInit" -> "OpenInitConnection"
      [] step = "OpenTry" -> "OpenTryConnection"
      [] step = "OpenAck" -> "OpenAckConnection"
      [] step = "OpenConfirm" -> "OpenConfirmConnection"
MissingOf(step) ==
    CASE step = "OpenInit" -> "missing_connection_init_event"
      [] step = "OpenTry" -> "missing_connection_try_event"
      [] step = "OpenAck" -> "missing_connection_ack_event"
      [] step = "OpenConfirm" -> "missing_connection_confirm_event"

\* a *_and_send from the point where send_msgs returned events
AndSendReturned(step, cs, events) ==
    Returned(cs, [err |-> FALSE, conns |-> cs, events |-> events], <<>>,
             EventOf(step), MissingOf(step))

InitEvents ==
    /\ op = "and_send"
    /\ args \in {[step |-> st, events |-> evs] :
                    st \in {"OpenInit", "OpenTry", "OpenAck", "OpenConfirm"},
                    evs \in EventLists}
    /\ engine = DriveEngine
    /\ pc = "start"
    /\ counter = 0
    /\ observed = <<>>
    /\ last = Step("", "", <<>>)
    /\ result = ""
    /\ sent = EmptyBag
    /\ trail = <<>>
    /\ faults = 0
    /\ racers = <<>>
    /\ healthy = TRUE
    /\ conns = Ledgers(0, 0)

WalkEvents ==
    /\ pc = "start" /\ op = "and_send"
    /\ \E res \in {AndSendReturned(args.step, conns, args.events)} :
          /\ result' = IF res.ok THEN "Ok" ELSE res.err
          /\ last' = Outcome(args.step, res.err, <<>>,
                             IF res.ok THEN <<res.event>> ELSE <<>>)
    /\ pc' = "done"
    /\ UNCHANGED <<conns, op, args, engine, counter, observed, sent, trail, healthy,
                   faults, racers>>

NextEvents == WalkEvents

SpecEvents == InitEvents /\ [][NextEvents]_vars

(***************************************************************************)
(* chain/counterparty.rs: the queries about channels and clients, each     *)
(* applied once to the inputs drawn in args.                               *)
(***************************************************************************)
PortIds == {"transfer", "ica"}
ChannelIds == {0, 1}

ChannelEnd(st, hops, port, chan) ==
    [state |-> st, connection_hops |-> hops,
     remote |-> [port_id |-> port, channel_id |-> chan]]

NoChannel == ChannelEnd("Uninitialized", <<>>, "", None)

\* query_channel on the channels chs of a chain
QueryChannel(chs, port_id, channel_id) ==
    IF <<port_id, channel_id>> \in DOMAIN chs THEN chs[<<port_id, channel_id>>]
    ELSE NoChannel

BundleErr(e) == [err |-> e]

\* a faulty bundle: the connection of the last hop
channel_connection_client_LastHop(cs, chs, cls, chain, port_id, channel_id, f) ==
    LET channel_end == QueryChannel(chs, port_id, channel_id)
        connection_id == channel_end.connection_hops[Len(channel_end.connection_hops)]
        connection_end == QueryConnection(cs, chain, connection_id)
    IN IF f = "query_channel" THEN BundleErr("relayer")
       ELSE IF channel_end.state = "Uninitialized" THEN BundleErr("channel_uninitialized")
       ELSE IF channel_end.connection_hops = <<>>
            THEN BundleErr("missing_connection_hops")
       ELSE IF f = "query_connection" THEN BundleErr("relayer")
       ELSE IF connection_end.state # "Open" THEN BundleErr("connection_not_open")
       ELSE IF f = "query_client_state" THEN BundleErr("relayer")
       ELSE [err |-> "",
             channel |-> [port_id |-> port_id, channel_id |-> channel_id,
                          channel_end |-> channel_end],
             connection |-> [connection_id |-> connection_id,
                             connection_end |-> connection_end],
             client |-> [client_id |-> connection_end.client_id,
                         client_state |-> cls[connection_end.client_id]]]

\* cs, chs, cls: the connections, channels and client states of the chains;
\* f names the query that fails, if any
channel_connection_client(cs, chs, cls, chain, port_id, channel_id, f) ==
    LET channel_end == QueryChannel(chs, port_id, channel_id)
        connection_id == channel_end.connection_hops[1]
        connection_end == QueryConnection(cs, chain, connection_id)
    IN IF f = "query_channel" THEN BundleErr("relayer")
       ELSE IF channel_end.state = "Uninitialized" THEN BundleErr("channel_uninitialized")
       ELSE IF channel_end.connection_hops = <<>>
            THEN BundleErr("missing_connection_hops")
       ELSE IF f = "query_connection" THEN BundleErr("relayer")
       ELSE IF connection_end.state # "Open" THEN BundleErr("connection_not_open")
       ELSE IF f = "query_client_state" THEN BundleErr("relayer")
       ELSE [err |-> "",
             channel |-> [port_id |-> port_id, channel_id |-> channel_id,
                          channel_end |-> channel_end],
             connection |-> [connection_id |-> connection_id,
                             connection_end |-> connection_end],
             client |-> [client_id |-> connection_end.client_id,
                         client_state |-> cls[connection_end.client_id]]]

\* the channels of a chain, in the order its queries list them
ChannelKeys == <<<<"transfer", 0>>, <<"transfer", 1>>, <<"ica", 0>>, <<"ica", 1>>>>

\* query_connection_channels: the channels of chs on the connection
ConnectionChannels(chs, connection_id) ==
    SelectSeq(ChannelKeys,
              LAMBDA k : /\ k \in DOMAIN chs
                         /\ chs[k].connection_hops # <<>>
                         /\ chs[k].connection_hops[1] = connection_id)

ChannelOk(c) == [err |-> "", channel |-> c]
ChannelErr(e) == [err |-> e, channel |-> None]

RECURSIVE FirstChannelPointingAt(_, _, _, _)
\* the first channel among keys whose remote is (port_id, channel_id)
FirstChannelPointingAt(chs, keys, port_id, channel_id) ==
    IF keys = <<>> THEN None
    ELSE IF /\ chs[Head(keys)].remote.channel_id = Some(channel_id)
            /\ chs[Head(keys)].remote.port_id = port_id
         THEN Some(chs[Head(keys)])
    ELSE FirstChannelPointingAt(chs, Tail(keys), port_id, channel_id)

fetch_channel_on_destination(chs, port_id, channel_id, remote_connection_id, f) ==
    IF f = "query_connection_channels" THEN ChannelErr("relayer")
    ELSE ChannelOk(FirstChannelPointingAt(chs, ConnectionChannels(chs, remote_connection_id),
                                          port_id, channel_id))

\* channel, connection: identified ends of the source chain; chs: the
\* channels of the counterparty chain
channel_on_destination(chs, channel, connection, f) ==
    IF channel.channel_end.remote.channel_id # None
    THEN IF f = "query_channel" THEN ChannelErr("relayer")
         ELSE ChannelOk(Some(QueryChannel(chs, channel.channel_end.remote.port_id,
                                          channel.channel_end.remote.channel_id[1])))
    ELSE IF connection.connection_end.cp_connection_id # None
         THEN fetch_channel_on_destination(chs, channel.port_id, channel.channel_id,
                                           connection.connection_end.cp_connection_id[1], f)
         ELSE ChannelOk(None)

PortChannelId(port, chan) == [port_id |-> port, channel_id |-> chan]

\* a faulty check: the port of the counterparty is not compared
check_channel_counterparty_IdOnly(chs, target_pchan, expected, f) ==
    LET counterparty == QueryChannel(chs, target_pchan.port_id,
                                     target_pchan.channel_id).remote
    IN IF f = "query_channel" THEN "query"
       ELSE IF counterparty.channel_id = None THEN "incomplete_channel_state"
       ELSE IF counterparty.channel_id[1] # expected.channel_id
            THEN "mismatch_channel_ends"
       ELSE "Ok"

\* chs: the channels of target_chain; "Ok" or the error
check_channel_counterparty(chs, target_pchan, expected, f) ==
    LET counterparty == QueryChannel(chs, target_pchan.port_id,
                                     target_pchan.channel_id).remote
    IN IF f = "query_channel" THEN "query"
       ELSE IF counterparty.channel_id = None THEN "incomplete_channel_state"
       ELSE IF PortChannelId(counterparty.port_id, counterparty.channel_id[1]) # expected
            THEN "mismatch_channel_ends"
       ELSE "Ok"

ChainOk(id) == [err |-> "", chain_id |-> id]
ChainErr(e) == [err |-> e, chain_id |-> ""]

\* query_client_state on the client states cls of a chain
QueryClientState(cls, client_id, f) ==
    IF f = "query_client_state" \/ client_id \notin DOMAIN cls THEN ChainErr("relayer")
    ELSE ChainOk(cls[client_id].chain_id)

\* a faulty lookup: the client the counterparty hosts
counterparty_chain_from_connection_Remote(cs, cls, chain, connection_id, f) ==
    IF f = "query_connection" THEN ChainErr("relayer")
    ELSE QueryClientState(cls, QueryConnection(cs, chain, connection_id).cp_client_id, f)

counterparty_chain_from_connection(cs, cls, chain, connection_id, f) ==
    IF f = "query_connection" THEN ChainErr("relayer")
    ELSE QueryClientState(cls, QueryConnection(cs, chain, connection_id).client_id, f)

\* the channel ("transfer", 0) of chainB, if chainB holds it
BundleChannels ==
    {<<>>} \cup
    {(<<"transfer", 0>> :> ChannelEnd(st, hops, "transfer", None)) :
        st \in {"Uninitialized", "Init", "Open"},
        hops \in {<<>>, <<0>>, <<1>>, <<1, 0>>}}

\* the chain each client of chainB tracks
ClientStates ==
    {[cl \in {"client-b", "client-x"} |-> [chain_id |-> IF cl = "client-b" THEN x ELSE y]] :
        x \in ChainIds, y \in {"chainA", "chainX"}}

InitBundle ==
    /\ op = "channel_connection_client"
    /\ \E chs \in BundleChannels, cls \in ClientStates :
          args = [chain |-> "chainB", port_id |-> "transfer", channel_id |-> 0,
                  channels |-> chs, client_states |-> cls]
    /\ conns \in {StepLedgers(NoEnd, b0, b1) : b0 \in RemoteEnds, b1 \in RemoteEnds}

\* the channels the counterparty chain may hold under (transfer, 0) and
\* (transfer, 1): none, or a channel on either connection with any remote
DestinationChannels ==
    LET ends == {ChannelEnd("TryOpen", <<k>>, port, chan) :
                    k \in {0, 1}, port \in PortIds,
                    chan \in {None} \cup {Some(i) : i \in ChannelIds}}
        at(i) == {<<>>} \cup {(<<"transfer", i>> :> e) : e \in ends}
    IN {c0 @@ c1 : c0 \in at(0), c1 \in at(1)}

InitMirror ==
    /\ op = "channel_on_destination"
    /\ \E chs \in DestinationChannels,
          chan \in {None} \cup {Some(i) : i \in ChannelIds},
          conn \in {None, Some(0), Some(1)} :
          args = [channel |-> [port_id |-> "transfer", channel_id |-> 0,
                               channel_end |-> ChannelEnd("Init", <<0>>, "transfer", chan)],
                  connection |-> [connection_id |-> 0,
                                  connection_end |->
                                      ConnectionEnd(IF conn = None THEN "Init" ELSE "Open",
                                                    "client-a", "client-b", conn,
                                                    ZERO_DURATION)],
                  channels |-> chs]
    /\ conns = Ledgers(0, 0)

InitCheck ==
    /\ op = "check_channel_counterparty"
    /\ \E chs \in DestinationChannels, port \in PortIds, chan \in ChannelIds :
          args = [target_pchan |-> PortChannelId("transfer", 0),
                  expected |-> PortChannelId(port, chan),
                  channels |-> chs]
    /\ conns = Ledgers(0, 0)

InitChain ==
    /\ op = "counterparty_chain_from_connection"
    /\ \E id \in {0, 1}, cls \in ClientStates :
          args = [src_chain |-> "chainB", src_connection_id |-> id, client_states |-> cls]
    /\ conns \in {StepLedgers(NoEnd, b0, b1) : b0 \in RemoteEnds, b1 \in RemoteEnds}

InitCounterparty ==
    /\ InitBundle \/ InitMirror \/ InitCheck \/ InitChain
    /\ engine = NoEngine
    /\ pc = "start"
    /\ counter = 0
    /\ observed = <<>>
    /\ last = Step("", "", <<>>)
    /\ result = ""
    /\ sent = EmptyBag
    /\ trail = <<>>
    /\ faults = 0
    /\ racers = <<>>
    /\ healthy \in BOOLEAN

\* a query returned r: result holds what it returned
Answer(r, f) ==
    /\ result' = r
    /\ last' = Step(op, r.err, <<>>)
    /\ faults' = IF f = "none" THEN faults ELSE faults + 1
    /\ pc' = "done"
    /\ UNCHANGED <<conns, op, args, engine, counter, observed, sent, trail, healthy,
                   racers>>

BundleCalls == <<"query_channel", "query_connection", "query_client_state">>

Failing(calls) ==
    {"none"} \cup (IF CanFault THEN {calls[i] : i \in DOMAIN calls} ELSE {})

ChannelConnectionClient ==
    /\ pc = "start" /\ op = "channel_connection_client"
    /\ \E f \in Failing(BundleCalls) :
          Answer(channel_connection_client(conns, args.channels, args.client_states,
                                           args.chain, args.port_id, args.channel_id, f),
                 f)

MirrorCalls == <<"query_channel", "query_connection_channels">>

ChannelOnDestination ==
    /\ pc = "start" /\ op = "channel_on_destination"
    /\ \E f \in Failing(MirrorCalls) :
          Answer(channel_on_destination(args.channels, args.channel, args.connection, f), f)

CheckChannelCounterparty ==
    /\ pc = "start" /\ op = "check_channel_counterparty"
    /\ \E f \in Failing(<<"query_channel">>) :
          Answer([err |-> check_channel_counterparty(args.channels, args.target_pchan,
                                                    args.expected, f)], f)

CounterpartyChainFromConnection ==
    /\ pc = "start" /\ op = "counterparty_chain_from_connection"
    /\ \E f \in Failing(<<"query_connection", "query_client_state">>) :
          Answer(counterparty_chain_from_connection(conns, args.client_states,
                     args.src_chain, args.src_connection_id, f), f)

NextCounterparty ==
    \/ ChannelConnectionClient
    \/ ChannelOnDestination
    \/ CheckChannelCounterparty
    \/ CounterpartyChainFromConnection

SpecCounterparty == InitCounterparty /\ [][NextCounterparty]_vars

(***************************************************************************)
(* restore_from_event on the event of the first loop of handshake.         *)
(***************************************************************************)
\* a faulty restore: the two client ids exchanged
restore_from_event_Swapped(chain, counterparty_chain, connection_open_event) ==
    IF connection_open_event.kind \notin {"OpenInitConnection", "OpenTryConnection",
                                          "OpenAckConnection", "OpenConfirmConnection"}
    THEN [err |-> "invalid_event", connection |-> NoEngine]
    ELSE [err |-> "",
          connection |->
             Connection(ZERO_DURATION,
                        ConnectionSide(chain, connection_open_event.counterparty_client_id,
                                       connection_open_event.connection_id),
                        ConnectionSide(counterparty_chain,
                                       connection_open_event.client_id,
                                       connection_open_event.counterparty_connection_id))]

\* connection_attributes() is None for the events that are not connection
\* events
restore_from_event(chain, counterparty_chain, connection_open_event) ==
    IF connection_open_event.kind \notin {"OpenInitConnection", "OpenTryConnection",
                                          "OpenAckConnection", "OpenConfirmConnection"}
    THEN [err |-> "invalid_event", connection |-> NoEngine]
    ELSE [err |-> "",
          connection |->
             Connection(ZERO_DURATION,
                        ConnectionSide(chain, connection_open_event.client_id,
                                       connection_open_event.connection_id),
                        ConnectionSide(counterparty_chain,
                                       connection_open_event.counterparty_client_id,
                                       connection_open_event.counterparty_connection_id))]

\* a handshake engine as new leaves it, about to enter the first loop
InitRestore ==
    /\ op = "restore_from_event"
    /\ pc = "init"
    /\ counter = 0
    /\ observed = <<>>
    /\ last = Outcome("", "", <<>>, <<>>)
    /\ result = ""
    /\ sent = EmptyBag
    /\ trail = <<>>
    /\ faults = 0
    /\ racers = <<>>
    /\ healthy \in BOOLEAN
    /\ \E p \in MutualPairs, d \in {ZERO_DURATION, Duration(10, 0)} :
          /\ engine = NewConnection(p[1], p[2], d)
          /\ args = [chain |-> p[1].dst_chain, counterparty_chain |-> p[2].dst_chain]
    /\ conns \in {Ledgers(na, nb) : na \in 0 .. MaxPre, nb \in 0 .. MaxPre}

\* an iteration of the first loop of handshake; the event it obtained is kept
PhaseOne ==
    /\ pc = "init" /\ op = "restore_from_event"
    /\ \E ch \in Choices(InitCalls) :
       \E res \in {build_conn_init_and_send(flipped(engine), conns, ch[1], ch[2])} :
       \E id \in {extract_connection_id(res.event)} :
            /\ conns' = res.conns
            /\ Log(res.sent)
            /\ faults' = Count(ch)
            /\ IF ~res.ok
               THEN /\ last' = Outcome("OpenInit", res.err, res.sent, <<>>)
                    /\ UNCHANGED <<engine, result>>
                    /\ IF LoopAgain(counter + 1)
                       THEN pc' = "init" /\ counter' = counter + 1
                       ELSE pc' = "done" /\ counter' = 0
               ELSE IF id = None
               THEN /\ last' = Outcome("OpenInit", "missing_connection_id_from_event",
                                       res.sent, <<res.event>>)
                    /\ result' = "missing_connection_id_from_event"
                    /\ pc' = "done"
                    /\ counter' = counter + 1
                    /\ engine' = engine
               ELSE /\ last' = Outcome("OpenInit", "", res.sent, <<res.event>>)
                    /\ engine' = StoreA(engine, id)
                    /\ pc' = "restore"
                    /\ counter' = 0
                    /\ result' = result
    /\ UNCHANGED <<op, args, observed, healthy, racers>>

\* restore_from_event on the event the first loop obtained, or on an event
\* that is not a connection event
RestoreFromEvent ==
    /\ pc = "restore"
    /\ \E e \in {last.events[1], ChainErrorEvent, UpdateClientEvent} :
          /\ observed' = <<e>>
          /\ result' = restore_from_event(args.chain, args.counterparty_chain, e)
    /\ pc' = "restored"
    /\ UNCHANGED <<conns, op, args, engine, counter, last, sent, trail, healthy, faults,
                   racers>>

\* the worker's step_event on the restored Connection, held in result, with
\* the event it was restored from
StepEvent ==
    /\ pc = "restored" /\ result.err = ""
    /\ \E cf \in {"none"} \cup
                 (IF CanFault THEN {CounterpartyCalls[i] : i \in DOMAIN CounterpartyCalls}
                  ELSE {}) :
       \E cp \in {counterparty_state(result.connection, conns, cf)} :
          IF cp.err # ""
          THEN /\ last' = Outcome("counterparty_state", cp.err, <<>>, <<>>)
               /\ faults' = IF cf = "none" THEN faults ELSE faults + 1
               /\ UNCHANGED <<conns, sent, trail, result>>
          ELSE \E ch \in (IF cf = "none"
                          THEN Choices(StepCalls(StepAction(EventState(observed[1]),
                                                            cp.state)))
                          ELSE {<<"none", "ok">>}) :
               \E res \in {step_event(result.connection, conns, observed[1], 0,
                                      cp.state, ch[1], ch[2]).step} :
                  /\ conns' = res.conns
                  /\ Log(res.sent)
                  /\ faults' = Count(ch)
                  /\ last' = Outcome(res.arm, res.err, res.sent, res.events)
                  /\ result' = [result EXCEPT !.connection = res.connection]
    /\ pc' = "done"
    /\ UNCHANGED <<op, args, engine, counter, observed, healthy, racers>>

NextRestore == PhaseOne \/ RestoreFromEvent \/ StepEvent

SpecRestore == InitRestore /\ [][NextRestore]_vars

(***************************************************************************)
(* The builders on their own: build_conn_try_and_send,                     *)
(* build_conn_ack_and_send and build_conn_confirm_and_send called once on  *)
(* a Connection with or without its two ids, against every pair of ends    *)
(* the two chains may hold.                                                *)
(***************************************************************************)
\* the Connection the builder is called on
BuildEngines ==
    {Connection(Duration(10, 0), ConnectionSide("chainA", "client-a", a),
                ConnectionSide("chainB", "client-b", b)) :
        a \in {None, Some(0)}, b \in {None, Some(0), Some(1)}}

InitBuild ==
    /\ op = "build"
    /\ args = [chain |-> "chainA", counterparty_chain |-> "chainB",
               src_connection_id |-> 0]
    /\ engine \in BuildEngines
    /\ pc = "start"
    /\ counter = 0
    /\ observed = <<>>
    /\ last = Outcome("", "", <<>>, <<>>)
    /\ result = ""
    /\ sent = EmptyBag
    /\ trail = <<>>
    /\ faults = 0
    /\ racers = <<>>
    /\ healthy = FALSE
    /\ conns \in {StepLedgers(a, b0, b1) :
                     a \in LocalEnds, b0 \in RemoteEnds, b1 \in RemoteEnds}

\* one call of the *_and_send of action; observed keeps the call that failed
\* and the answer of the destination
BuildCall(action) ==
    /\ pc = "start" /\ op = "build"
    /\ \E ch \in Choices(StepCalls(action)) :
       \E res \in {StepSend(action, engine, conns, ch[1], ch[2])} :
          /\ conns' = res.conns
          /\ Log(res.sent)
          /\ faults' = Count(ch)
          /\ observed' = ch
          /\ last' = Outcome(action, res.err, res.sent,
                             IF res.ok THEN <<res.event>> ELSE <<>>)
          /\ result' = IF res.ok THEN "Ok" ELSE res.err
    /\ pc' = "done"
    /\ UNCHANGED <<op, args, engine, counter, healthy, racers>>

BuildTry == BuildCall("Try")
BuildAck == BuildCall("Ack")
BuildConfirm == BuildCall("Confirm")

NextBuild == BuildTry \/ BuildAck \/ BuildConfirm

SpecBuild == InitBuild /\ [][NextBuild]_vars

(***************************************************************************)
(* Properties.                                                             *)
(***************************************************************************)
\* the handshake message with its destination, as trail records it
Sent(ty, ch) == [type |-> ty, chain |-> ch]

\* the end a side points at, on ledgers cs
EndAt(cs, side) == cs[side.chain][side.connection_id[1]]

\* the end the engine's side points at
EndOf(side) == EndAt(conns, side)

\* C1: new returns Ok only after a Phase-3 iteration in which both ids are
\* present and the last query of each end returned Open; in no other joint
\* state does it return Ok.
C1_OkOnlyOnOpenOpen ==
    (op = "new" /\ result = "Ok") =>
        /\ pc = "done"
        /\ engine.a_side.connection_id # None
        /\ engine.b_side.connection_id # None
        /\ last.step = "Done"
        /\ observed = <<"Open", "Open">>
        /\ EndOf(engine.a_side).state = "Open"
        /\ EndOf(engine.b_side).state = "Open"

\* new returned Ok although calls failed on the way
C1_Witness == op = "new" /\ result = "Ok" /\ ~healthy /\ faults > 0

\* new is called with clients and a delay it accepts, on chains that answer
\* every call
FreshHealthy ==
    /\ op = "new" /\ healthy
    /\ args.a_client.src_chain = args.b_client.dst_chain
    /\ args.a_client.dst_chain = args.b_client.src_chain
    /\ args.delay_period.secs < MAX_PACKET_DELAY_SECS
       \/ args.delay_period = Duration(MAX_PACKET_DELAY_SECS, 0)

\* C2: a handshake on healthy chains, for a pair of clients without a
\* connection, terminates with Ok after submitting exactly OpenInit to A,
\* OpenTry to B, OpenAck to A and OpenConfirm to B, once each and in this
\* order; both ends are then Open and the stored ids are those of the ends
\* the chains created.
C2_FreshHandshake ==
    /\ [](FreshHealthy =>
            \A ty \in {"OpenInit", "OpenTry", "OpenAck", "OpenConfirm"} :
               \A ch \in ChainIds : Submitted(ty, ch) <= 1)
    /\ []((FreshHealthy /\ pc = "done") =>
            /\ result = "Ok"
            /\ trail = <<Sent("OpenInit", args.a_client.dst_chain),
                         Sent("OpenTry", args.b_client.dst_chain),
                         Sent("OpenAck", args.a_client.dst_chain),
                         Sent("OpenConfirm", args.b_client.dst_chain)>>
            /\ engine.a_side.connection_id # None
            /\ engine.b_side.connection_id # None
            /\ EndOf(engine.a_side) =
                  ConnectionEnd("Open", args.a_client.id, args.b_client.id,
                                engine.b_side.connection_id, args.delay_period)
            /\ EndOf(engine.b_side) =
                  ConnectionEnd("Open", args.b_client.id, args.a_client.id,
                                engine.a_side.connection_id, args.delay_period))
    /\ (FreshHealthy ~> pc = "done")

\* the handshake between two chains finished, among connections of others
C2_Witness ==
    /\ FreshHealthy /\ pc = "done" /\ result = "Ok"
    /\ args.a_client.dst_chain # args.b_client.dst_chain
    /\ engine.b_side.connection_id = Some(MaxPre)

\* the dispatch table of Phase 3, as the specification states it
Table(pair) ==
    IF pair \in {<<"Init", "TryOpen">>, <<"TryOpen", "TryOpen">>}
    THEN [step |-> "AckA", type |-> "OpenAck", chain |-> engine.a_side.chain]
    ELSE IF pair = <<"Open", "TryOpen">>
    THEN [step |-> "ConfirmB", type |-> "OpenConfirm", chain |-> engine.b_side.chain]
    ELSE IF pair = <<"TryOpen", "Open">>
    THEN [step |-> "ConfirmA", type |-> "OpenConfirm", chain |-> engine.a_side.chain]
    ELSE IF pair = <<"Open", "Open">>
    THEN [step |-> "Done", type |-> "", chain |-> ""]
    ELSE [step |-> "Noop", type |-> "", chain |-> ""]

\* C3: a Phase-3 iteration whose two queries succeeded acts on the pair as
\* the table says: the step attempted, the only handshake message it may
\* submit and the chain that receives it; (Open, Open) returns Ok, any
\* other pair submits nothing.
C3_DispatchTable ==
    last.step \in {"AckA", "ConfirmB", "ConfirmA", "Done", "Noop"} =>
        /\ last.step = Table(observed).step
        /\ \A i \in DOMAIN last.sent :
              \A j \in DOMAIN last.sent[i].msgs :
                 last.sent[i].msgs[j].type # "UpdateClient" =>
                    /\ last.sent[i].msgs[j].type = Table(observed).type
                    /\ last.sent[i].chain = Table(observed).chain
        /\ Table(observed).type = "" => last.sent = <<>>
        /\ (observed = <<"Open", "Open">>) <=> (result = "Ok")

\* (TryOpen, Open) was met and OpenConfirm reached chain A
C3_Witness ==
    /\ observed = <<"TryOpen", "Open">>
    /\ last.step = "ConfirmA" /\ last.err = ""
    /\ EndOf(engine.a_side).state = "Open"

\* C4: once the engine exists, a side's connection_id never changes after
\* it is present; it becomes present only in the step that observes the
\* OpenInit event (a side) or the OpenTry event (b side), with the id of the
\* end the chain just wrote.
C4_IdsSetOnce ==
    [][pc # "start" =>
        /\ engine.a_side.connection_id # None =>
              engine'.a_side.connection_id = engine.a_side.connection_id
        /\ engine.b_side.connection_id # None =>
              engine'.b_side.connection_id = engine.b_side.connection_id
        /\ (engine.a_side.connection_id = None /\ engine'.a_side.connection_id # None) =>
              /\ pc = "init" /\ last'.step = "OpenInit" /\ last'.err = ""
              /\ EndAt(conns, engine'.a_side).state = "Uninitialized"
              /\ EndAt(conns', engine'.a_side).state = "Init"
        /\ (engine.b_side.connection_id = None /\ engine'.b_side.connection_id # None) =>
              /\ pc = "try" /\ last'.step = "OpenTry" /\ last'.err = ""
              /\ EndAt(conns, engine'.b_side) # EndAt(conns', engine'.b_side)
              /\ EndAt(conns', engine'.b_side).state = "TryOpen"
    ]_vars

\* both ids were stored, the second after failed attempts
C4_Witness ==
    /\ op = "new" /\ pc = "drive" /\ faults > 0
    /\ engine.a_side.connection_id # None
    /\ engine.b_side.connection_id # None

\* C5: with both ids present every Phase-3 iteration counts, whether a
\* query failed, the step failed or the pair asked for nothing; the
\* handshake fails with max_retry exactly when the MAX_RETRIES-th iteration
\* ends without having seen (Open, Open).
C5_RetryBudget ==
    [][(pc \in {"drive", "dispatch"}
        /\ engine.a_side.connection_id # None
        /\ engine.b_side.connection_id # None) =>
        /\ counter' = IF pc = "drive" THEN counter + 1 ELSE counter
        /\ (pc' # "dispatch" /\ last'.step # "Done") =>
              IF counter' = MAX_RETRIES
              THEN pc' = "done" /\ result' = "max_retry"
              ELSE pc' = "drive" /\ counter' < MAX_RETRIES /\ result' = result
    ]_vars

\* the fifth iteration was a failed query and the handshake gave up
C5_Witness ==
    /\ result = "max_retry" /\ counter = MAX_RETRIES
    /\ last.step = "Query" /\ last.err # ""

\* Phase 1 handed OpenInit to chain A MAX_RETRIES times, every submission
\* failed, and the handshake has returned
InitExhausted ==
    /\ op = "new" /\ pc = "done"
    /\ engine # NoEngine
    /\ engine.a_side.connection_id = None
    /\ last.step # "OpenInit"
    /\ Submitted("OpenInit", engine.a_side.chain) = MAX_RETRIES

\* C6 as stated: five consecutive OpenInit submission errors in Phase 1 make
\* the handshake fail with max_retry.
C6_InitExhaustedMaxRetry == InitExhausted => result = "max_retry"

\* C6, amended: five consecutive OpenInit submission errors in Phase 1 make
\* the handshake fail with missing_local_connection_id, raised by the first
\* iteration of Phase 3 after a Phase 2 that submitted no OpenTry.
C6_InitExhaustedMissingId ==
    InitExhausted =>
        /\ result = "missing_local_connection_id"
        /\ last = Step("Query", "missing_local_connection_id", <<>>)
        /\ counter = 1
        /\ engine.b_side.connection_id = None
        /\ Submitted("OpenTry", engine.b_side.chain) = 0

\* five submissions of OpenInit failed and the handshake has returned
C6_Witness == InitExhausted /\ faults = MAX_RETRIES /\ result # ""

\* C7: when four attempts of OpenInit have failed at submission and the
\* fifth succeeds, a_side.connection_id becomes the id of the end chain A
\* just created, OpenInit has been submitted exactly five times, and the
\* handshake moves on to Phase 2.
C7_FifthInitSucceeds ==
    [][(/\ pc = "init" /\ counter = MAX_RETRIES - 1
        /\ Submitted("OpenInit", engine.a_side.chain) = MAX_RETRIES - 1
        /\ last'.step = "OpenInit" /\ last'.err = "") =>
        /\ engine'.a_side.connection_id # None
        /\ EndAt(conns, engine'.a_side).state = "Uninitialized"
        /\ EndAt(conns', engine'.a_side).state = "Init"
        /\ engine'.b_side = engine.b_side
        /\ Submitted("OpenInit", engine.a_side.chain)' = MAX_RETRIES
        /\ pc' = "try" /\ counter' = 0 /\ result' = ""
    ]_vars

\* the fifth OpenInit went through after four failed submissions
C7_Witness ==
    /\ op = "new" /\ pc = "try" /\ counter = 0
    /\ last.step = "OpenInit" /\ last.err = ""
    /\ faults = MAX_RETRIES - 1
    /\ Submitted("OpenInit", engine.a_side.chain) = MAX_RETRIES
    /\ engine.a_side.connection_id # None

\* C8 as stated: handshake on an engine whose two ends are Open submits
\* nothing, leaves both ids as they are and returns Ok on its first check of
\* the joint state.
C8_RerunIsNoOp ==
    /\ sent = EmptyBag
    /\ engine = DriveEngine
    /\ pc = "done" => (result = "Ok" /\ counter = 1)

\* the delay period exceeds MAX_PACKET_DELAY
Exceeds(d) ==
    \/ d.secs > MAX_PACKET_DELAY_SECS
    \/ d.secs = MAX_PACKET_DELAY_SECS /\ d.nanos > 0

\* new has decided on its arguments
NewDecided == op = "new" /\ pc # "start"

\* C9 as stated: for every delay_period above MAX_PACKET_DELAY new fails
\* with max_delay_period before anything is submitted; MAX_PACKET_DELAY
\* itself is not rejected; an accepted Connection has a delay_period of at
\* most MAX_PACKET_DELAY.
C9_DelayBound ==
    NewDecided =>
        /\ Exceeds(args.delay_period) =>
              (result = "max_delay_period" /\ pc = "done" /\ sent = EmptyBag)
        /\ ~Exceeds(args.delay_period) => result # "max_delay_period"
        /\ engine # NoEngine => ~Exceeds(engine.delay_period)

\* the client pair passes validate_clients
ClientsMatch ==
    /\ args.a_client.src_chain = args.b_client.dst_chain
    /\ args.a_client.dst_chain = args.b_client.src_chain

\* C9, amended: for a client pair that passes validate_clients, new goes on
\* to the handshake with delay_period = MAX_PACKET_DELAY and fails with
\* max_delay_period, before anything is submitted, for every delay_period
\* above it (MAX_PACKET_DELAY + 1 ns included); for a pair that does not
\* pass, new fails with chain_id_mismatch whatever the delay_period.  An
\* accepted Connection has a delay_period of at most MAX_PACKET_DELAY.
C9_DelayBoundAfterClients ==
    NewDecided =>
        /\ (ClientsMatch /\ Exceeds(args.delay_period)) =>
              /\ result = "max_delay_period" /\ pc = "done"
              /\ sent = EmptyBag /\ engine = NoEngine
        /\ (ClientsMatch /\ ~Exceeds(args.delay_period)) =>
              /\ result # "max_delay_period"
              /\ engine # NoEngine /\ engine.delay_period = args.delay_period
        /\ ~ClientsMatch =>
              /\ result = "chain_id_mismatch" /\ pc = "done"
              /\ sent = EmptyBag /\ engine = NoEngine
        /\ engine # NoEngine => ~Exceeds(engine.delay_period)

\* MAX_PACKET_DELAY + 1 ns was rejected
C9_Witness ==
    /\ NewDecided /\ ClientsMatch
    /\ args.delay_period = Duration(MAX_PACKET_DELAY_SECS, 1)
    /\ result = "max_delay_period"

\* C10: new and find fail with chain_id_mismatch, before any step that
\* touches a chain, whenever a_client.src_chain differs from
\* b_client.dst_chain or a_client.dst_chain differs from b_client.src_chain;
\* when both are equal neither fails with chain_id_mismatch.
C10_ClientValidation ==
    pc # "start" =>
        IF ClientsMatch
        THEN result # "chain_id_mismatch"
        ELSE /\ result = "chain_id_mismatch" /\ pc = "done"
             /\ engine = NoEngine
             /\ last = Step("", "", <<>>)
             /\ sent = EmptyBag /\ trail = <<>>
             /\ \E na, nb \in 0 .. MaxPre : conns = Ledgers(na, nb)

\* find refused a pair that differs in the second equality only
C10_Witness ==
    /\ op = "find" /\ result = "chain_id_mismatch"
    /\ args.a_client.src_chain = args.b_client.dst_chain
    /\ args.a_client.dst_chain # args.b_client.src_chain

\* C11 as stated: the two sides of every Connection an entry point returns
\* are on chains with distinct ids.
C11_DistinctChains ==
    engine # NoEngine => engine.a_side.chain # engine.b_side.chain

\* C12: two relayers racing in Phase 3 on the same pair of ids, under every
\* interleaving of their queries, builds and submissions: a step changes at
\* most one connection end and never lowers its state; a relayer whose Ack
\* or Confirm failed returns to the head of the loop and neither relayer
\* ever returns an error; both relayers return Ok, each within MAX_RETRIES
\* iterations, with both ends Open.
C12_RacingRelayers ==
    /\ [][/\ \A ch \in ChainIds : \A id \in ConnIds :
                StateOrd(conns'[ch][id].state) >= StateOrd(conns[ch][id].state)
          /\ Cardinality({<<ch, id>> \in ChainIds \X ConnIds :
                             conns'[ch][id] # conns[ch][id]}) <= 1
          /\ \A i \in Racers :
                racers'[i].failed > racers[i].failed =>
                   racers'[i].pc = "drive" /\ racers'[i].result = ""
       ]_vars
    /\ [](\A i \in Racers :
             /\ racers[i].result \in {"", "Ok"}
             /\ racers[i].counter <= MAX_RETRIES
             /\ racers[i].result = "Ok" =>
                   (EndOf(engine.a_side).state = "Open"
                    /\ EndOf(engine.b_side).state = "Open"))
    /\ <>(\A i \in Racers : racers[i].result = "Ok")

\* both relayers returned Ok, one of them in its third iteration after its
\* Ack and its Confirm both failed
C12_Witness ==
    /\ pc = "race"
    /\ \A i \in Racers : racers[i].result = "Ok"
    /\ \E i \in Racers : racers[i].failed = 2 /\ racers[i].counter = 3
    /\ Submitted("OpenAck", "chainA") = 2
    /\ Submitted("OpenConfirm", "chainB") = 2

\* C13 as stated: whenever the engine has found both ends in TryOpen, in
\* handshake or in handshake_step, the handshake message it submits next is
\* an OpenAck to the chain of its a_side, never to that of its b_side.
C13_TieBreakAckToA ==
    (observed = <<"TryOpen", "TryOpen">>
     /\ last.step \in {"AckA", "ConfirmA", "ConfirmB", "Try", "Ack", "Confirm"}) =>
        \A i \in DOMAIN last.sent :
           \A j \in DOMAIN last.sent[i].msgs :
              last.sent[i].msgs[j].type # "UpdateClient" =>
                 /\ last.sent[i].msgs[j].type = "OpenAck"
                 /\ last.sent[i].chain = engine.a_side.chain

\* the destination end validated_expected_connection reads
DestinationEnd == conns[engine.b_side.chain][engine.b_side.connection_id[1]]

\* C14: when its queries succeed, validated_expected_connection returns Ok
\* iff the destination end is not Uninitialized, its client ids are the
\* engine's dst_client_id and src_client_id, its state is at most TryOpen and
\* its counterparty connection id is absent or the engine's
\* src_connection_id; an Uninitialized end gives missing_connection_id, any
\* other violation connection_already_exist.
C14_ValidatedExpectedConnection ==
    (op = "validated_expected_connection" /\ pc = "done" /\ last.err = "none") =>
        result =
           IF DestinationEnd.state = "Uninitialized" THEN "missing_connection_id"
           ELSE IF /\ DestinationEnd.client_id = engine.b_side.client_id
                   /\ DestinationEnd.cp_client_id = engine.a_side.client_id
                   /\ DestinationEnd.state \in {"Init", "TryOpen"}
                   /\ \/ DestinationEnd.cp_connection_id = None
                      \/ DestinationEnd.cp_connection_id = engine.a_side.connection_id
                THEN "Ok"
                ELSE "connection_already_exist"

\* an Open destination end whose counterparty client is not the engine's
\* source client was refused
C14_Witness ==
    /\ op = "validated_expected_connection" /\ pc = "done" /\ last.err = "none"
    /\ DestinationEnd.state = "Open"
    /\ DestinationEnd.client_id = engine.b_side.client_id
    /\ DestinationEnd.cp_client_id # engine.a_side.client_id
    /\ result = "connection_already_exist"

\* the positions of args.events that hold an event of kind k
Positions(k) == {i \in DOMAIN args.events : args.events[i].kind = k}

\* the kind of event the step named in args is after
OwnKind ==
    IF args.step = "OpenInit" THEN "OpenInitConnection"
    ELSE IF args.step = "OpenTry" THEN "OpenTryConnection"
    ELSE IF args.step = "OpenAck" THEN "OpenAckConnection"
    ELSE "OpenConfirmConnection"

\* C15 as stated: if the events returned by the submission hold a
\* ChainError, the *_and_send fails with tx_response, whatever else the list
\* holds and in whatever order.
C15_AnyChainErrorAborts ==
    (op = "and_send" /\ pc = "done" /\ Positions("ChainError") # {}) =>
        result = "tx_response"

\* C16: a *_and_send returns Ok only with an event of its own kind, the
\* first of that kind in the list, connection events of other kinds before
\* it being passed over; with neither an event of its own kind nor a
\* ChainError in the list it fails with the missing-event error of its step.
C16_OwnEventOnly ==
    (op = "and_send" /\ pc = "done") =>
        /\ result = "Ok" =>
              /\ Positions(OwnKind) # {}
              /\ \E i \in Positions(OwnKind) :
                    /\ \A j \in Positions(OwnKind) : i <= j
                    /\ last.events = <<args.events[i]>>
        /\ (Positions(OwnKind) = {} /\ Positions("ChainError") = {}) =>
              result = IF args.step = "OpenInit" THEN "missing_connection_init_event"
                       ELSE IF args.step = "OpenTry" THEN "missing_connection_try_event"
                       ELSE IF args.step = "OpenAck" THEN "missing_connection_ack_event"
                       ELSE "missing_connection_confirm_event"
        /\ (Positions(OwnKind) = {} /\ Positions("ChainError") # {}) =>
              result = "tx_response"

\* OpenAck's own event was found behind an OpenTry event, and a later
\* OpenAck event was left alone
C16_Witness ==
    /\ op = "and_send" /\ pc = "done" /\ args.step = "OpenAck"
    /\ Len(args.events) = 3
    /\ args.events[1].kind = "OpenTryConnection"
    /\ Positions("OpenAckConnection") = {2, 3}
    /\ result = "Ok" /\ last.events = <<args.events[2]>>

\* a batch whose messages before the last are updates, from the chain the
\* last message's proofs come from, of a client the engine has on the
\* batch's chain, and there is at least one of them
UpdatesThenMessage(b) ==
    LET n == Len(b.msgs)
    IN /\ n >= 2
       /\ \A i \in 1 .. n - 1 :
             /\ b.msgs[i].type = "UpdateClient"
             /\ b.msgs[i].proof_from = b.msgs[n].proof_from
             /\ \E side \in {engine.a_side, engine.b_side} :
                   side.chain = b.chain /\ side.client_id = b.msgs[i].client_id

\* C17: in every batch submitted with an OpenTry, OpenAck or OpenConfirm
\* message, that message is the last of the batch and the messages before
\* it, at least one, are the updates of the destination client from the chain
\* the proofs were taken on; the handshake message is never alone in its
\* batch nor ahead of an update.
C17_UpdateClientThenMessage ==
    \A b \in DOMAIN sent :
        \A i \in DOMAIN b.msgs :
            b.msgs[i].type \in {"OpenTry", "OpenAck", "OpenConfirm"} =>
                i = Len(b.msgs) /\ UpdatesThenMessage(b)

\* new has returned Ok after submitting an OpenTry, an OpenAck and an
\* OpenConfirm batch
C17_Witness ==
    /\ op = "new" /\ pc = "done" /\ result = "Ok"
    /\ \A ty \in {"OpenTry", "OpenAck", "OpenConfirm"} :
          \E b \in DOMAIN sent : b.msgs[Len(b.msgs)].type = ty

\* find has returned, on a pair of clients that validate_clients accepts
FindDecided ==
    /\ op = "find" /\ pc = "done"
    /\ args.a_client.src_chain = args.b_client.dst_chain
    /\ args.a_client.dst_chain = args.b_client.src_chain

\* C18: on a valid pair of clients find returns Ok exactly when the end's
\* client id is a_client's, its counterparty client id is b_client's, it is
\* Open and it names a counterparty connection; then the engine has the
\* end's id on its a side, the counterparty connection id on its b side and
\* the end's delay.  Otherwise the error is connection_client_id_mismatch,
\* connection_not_open or missing_counterparty_connection_id_field, the first
\* of these that applies.  Nothing is submitted.
C18_Find ==
    FindDecided =>
        LET e == args.conn_end_a.connection_end
        IN /\ result =
                 IF e.client_id # args.a_client.id \/ e.cp_client_id # args.b_client.id
                 THEN "connection_client_id_mismatch"
                 ELSE IF e.state # "Open" THEN "connection_not_open"
                 ELSE IF e.cp_connection_id = None
                      THEN "missing_counterparty_connection_id_field"
                      ELSE "Ok"
           /\ result = "Ok" =>
                 /\ engine.a_side.connection_id = Some(args.conn_end_a.connection_id)
                 /\ engine.b_side.connection_id = e.cp_connection_id
                 /\ engine.b_side.connection_id # None
                 /\ engine.delay_period = e.delay_period
           /\ Submissions = 0

\* find has returned the engine of an Open end that names its counterparty
C18_Witness ==
    /\ FindDecided /\ result = "Ok"
    /\ args.conn_end_a.connection_end.state = "Open"
    /\ engine.a_side.connection_id = Some(1)
    /\ engine.b_side.connection_id = Some(0)

\* restore_from_state has returned its engine and nothing has been done since
Restored == op = "restore_from_state" /\ pc = "step"

\* the end the worker named, on the chain it named
LocalEnd == conns[args.chain][args.src_connection_id]

\* the connections of the counterparty chain that point at the worker's
\* connection under the client the local end names
Mirrors ==
    {i \in ConnIds :
        LET e == conns[args.counterparty_chain][i]
        IN /\ e.state # "Uninitialized"
           /\ e.client_id = LocalEnd.cp_client_id
           /\ e.cp_connection_id = Some(args.src_connection_id)}

\* C19: restore_from_state puts the queried id on the a side and returns the
\* local end's state.  When the local end is in Init and names no
\* counterparty connection, the b side gets the first connection of the
\* counterparty chain that has the client the local end names and points at
\* the local id, and none when there is no such connection; the enumeration
\* is needed then (the call does not return when it fails).  In every other
\* case the b side gets the local end's counterparty connection id and the
\* enumeration is not made (its failing does not fail the call).
C19_RestoreFromState ==
    Restored =>
        /\ engine.a_side.connection_id = Some(args.src_connection_id)
        /\ observed = <<LocalEnd.state>>
        /\ IF LocalEnd.state = "Init" /\ LocalEnd.cp_connection_id = None
           THEN /\ engine.b_side.connection_id =
                      IF Mirrors = {} THEN None
                      ELSE Some(CHOOSE i \in Mirrors : \A j \in Mirrors : i <= j)
                /\ faults = 0
           ELSE /\ engine.b_side.connection_id = LocalEnd.cp_connection_id
                /\ restore_from_state(conns, args.chain, args.counterparty_chain,
                                      args.src_connection_id,
                                      "r_query_connections").err = ""

\* the local end is in Init; the first connection of the counterparty chain
\* points back under another client, the second under the right one, and
\* the second is taken
C19_Witness ==
    /\ Restored
    /\ LocalEnd.state = "Init" /\ LocalEnd.cp_connection_id = None
    /\ conns[args.counterparty_chain][0].cp_connection_id = Some(0)
    /\ conns[args.counterparty_chain][0].client_id # LocalEnd.cp_client_id
    /\ Mirrors = {1}
    /\ engine.b_side.connection_id = Some(1)

\* handshake_step has returned after counterparty_state gave it a state
Stepped == op = "restore_from_state" /\ pc = "done" /\ Len(observed) = 2

\* the arm and the message C20 expects for the pair handshake_step saw
Expected ==
    LET pair == <<observed[1], observed[2]>>
    IN IF pair \in {<<"Init", "Uninitialized">>, <<"Init", "Init">>}
       THEN [arm |-> "Try", type |-> "OpenTry"]
       ELSE IF pair \in {<<"TryOpen", "Init">>, <<"TryOpen", "TryOpen">>}
       THEN [arm |-> "Ack", type |-> "OpenAck"]
       ELSE IF pair = <<"Open", "TryOpen">>
       THEN [arm |-> "Confirm", type |-> "OpenConfirm"]
       ELSE [arm |-> "Nothing", type |-> ""]

\* the handshake messages handshake_step submitted, each with its chain
StepMessages ==
    {Handshake(last.sent[i])[1] :
        i \in {j \in DOMAIN last.sent : Handshake(last.sent[j]) # <<>>}}

\* C20: handshake_step(state) with cp the state counterparty_state returned
\* takes the OpenTry arm on (Init, Uninitialized) and (Init, Init), the
\* OpenAck arm on (TryOpen, Init) and (TryOpen, TryOpen), the OpenConfirm arm
\* on (Open, TryOpen); the only handshake message an arm submits is its own,
\* to the chain of the b side, and it is submitted when the arm returns Ok
\* with its one event.  On every other pair nothing is submitted and the
\* list of events returned is empty.
C20_HandshakeStep ==
    Stepped =>
        /\ last.step = Expected.arm
        /\ StepMessages \subseteq {Sent(Expected.type, engine.b_side.chain)}
        /\ (Expected.arm # "Nothing" /\ result = "Ok") =>
              /\ StepMessages # {}
              /\ Len(last.events) = 1
        /\ Expected.arm = "Nothing" =>
              /\ last.sent = <<>>
              /\ last.events = <<>>
              /\ result = "Ok"

\* the engine restored from an Init end without mirror has no b id;
\* handshake_step(Init) saw Uninitialized and submitted an OpenTry to chainB
C20_Witness ==
    /\ Stepped
    /\ engine.b_side.connection_id = None
    /\ observed = <<"Init", "Uninitialized">>
    /\ last.step = "Try"
    /\ StepMessages = {Sent("OpenTry", "chainB")}
    /\ result = "Ok"

\* the state C21 expects of the mirror of the worker's connection
MirrorState ==
    IF LocalEnd.cp_connection_id # None
    THEN conns[args.counterparty_chain][LocalEnd.cp_connection_id[1]].state
    ELSE IF Mirrors = {} THEN "Uninitialized"
    ELSE conns[args.counterparty_chain][CHOOSE i \in Mirrors :
                                            \A j \in Mirrors : i <= j].state

\* C21: the state counterparty_state hands to handshake_step is the state, on
\* the counterparty chain, of the connection the local end names; when it
\* names none, the state of the first connection of the counterparty client
\* that points back at the local id; Uninitialized when there is none.
C21_StateOfMirror ==
    [][(pc = "step" /\ pc' = "done" /\ Len(observed') = 2) =>
          observed'[2] = MirrorState]_vars

\* the local end names no counterparty; the first connection of chainB
\* points back under another client, the second under the right one and is
\* in TryOpen, and TryOpen is what handshake_step was given
C21_Witness ==
    /\ Stepped /\ last.step = "Nothing"
    /\ LocalEnd.state = "Init" /\ LocalEnd.cp_connection_id = None
    /\ conns[args.counterparty_chain][0].cp_connection_id = Some(0)
    /\ conns[args.counterparty_chain][0].client_id # LocalEnd.cp_client_id
    /\ conns[args.counterparty_chain][0].state = "Open"
    /\ Mirrors = {1}
    /\ conns[args.counterparty_chain][1].state = "TryOpen"
    /\ observed[2] = "TryOpen"

\* channel_connection_client has returned and none of its queries failed
BundleDecided ==
    op = "channel_connection_client" /\ pc = "done" /\ faults = 0

\* the channel channel_connection_client was asked about
BundleChannel == QueryChannel(args.channels, args.port_id, args.channel_id)

\* C22: channel_connection_client fails with channel_uninitialized when the
\* channel is Uninitialized, else with missing_connection_hops when it has no
\* hop, else with connection_not_open when the connection of its first hop
\* is not Open, and succeeds otherwise; the bundle returned holds the
\* connection of the first hop, which is Open, and the client of that
\* connection.
C22_ChannelConnectionClient ==
    BundleDecided =>
        /\ result.err =
              IF BundleChannel.state = "Uninitialized" THEN "channel_uninitialized"
              ELSE IF Len(BundleChannel.connection_hops) = 0
                   THEN "missing_connection_hops"
              ELSE IF conns[args.chain][BundleChannel.connection_hops[1]].state # "Open"
                   THEN "connection_not_open"
                   ELSE ""
        /\ result.err = "" =>
              /\ result.channel.channel_end = BundleChannel
              /\ result.connection.connection_id = result.channel.channel_end.connection_hops[1]
              /\ result.connection.connection_end =
                    conns[args.chain][result.connection.connection_id]
              /\ result.connection.connection_end.state = "Open"
              /\ result.client.client_id = result.connection.connection_end.client_id
              /\ result.client.client_state = args.client_states[result.client.client_id]

\* a bundle was returned for a channel of two hops whose first names an Open
\* connection and whose second names a connection that is not Open
C22_Witness ==
    /\ BundleDecided /\ result.err = ""
    /\ BundleChannel.connection_hops = <<1, 0>>
    /\ conns[args.chain][0].state # "Open"
    /\ result.connection.connection_id = 1
    /\ result.client.client_id = "client-x"

\* channel_on_destination has returned and none of its queries failed
MirrorDecided == op = "channel_on_destination" /\ pc = "done" /\ result.err = ""

\* the channels of the counterparty chain whose remote is the channel asked
\* about
ChannelMirrors ==
    {k \in DOMAIN args.channels :
        args.channels[k].remote = [port_id |-> args.channel.port_id,
                                   channel_id |-> Some(args.channel.channel_id)]}

\* C23 as stated: channel_on_destination returns a channel exactly when the
\* counterparty chain holds a channel whose remote is the channel asked
\* about, and the channel it returns is one the counterparty chain holds.
C23_SomeIffMirror ==
    MirrorDecided =>
        /\ result.channel # None <=> ChannelMirrors # {}
        /\ result.channel # None =>
              \E k \in DOMAIN args.channels : args.channels[k] = result.channel[1]

\* check_channel_counterparty has returned and its query did not fail
CheckDecided == op = "check_channel_counterparty" /\ pc = "done" /\ faults = 0

\* the counterparty recorded by the channel check_channel_counterparty queried
ObservedRemote ==
    QueryChannel(args.channels, args.target_pchan.port_id,
                 args.target_pchan.channel_id).remote

\* C24: check_channel_counterparty returns Ok exactly when the channel it
\* queried records a counterparty channel id and the counterparty's port and
\* channel id are the expected ones; it fails with incomplete_channel_state
\* when no counterparty channel id is recorded, and with
\* mismatch_channel_ends when the port or the channel id differs.
C24_CheckChannelCounterparty ==
    CheckDecided =>
        result.err =
            IF ObservedRemote.channel_id = None THEN "incomplete_channel_state"
            ELSE IF ObservedRemote.port_id # args.expected.port_id
                    \/ ObservedRemote.channel_id[1] # args.expected.channel_id
                 THEN "mismatch_channel_ends"
                 ELSE "Ok"

\* the channel queried records the expected channel id under another port,
\* and the check failed with mismatch_channel_ends
C24_Witness ==
    /\ CheckDecided
    /\ ObservedRemote.channel_id = Some(args.expected.channel_id)
    /\ ObservedRemote.port_id # args.expected.port_id
    /\ result.err = "mismatch_channel_ends"

\* counterparty_chain_from_connection has returned
ChainDecided == op = "counterparty_chain_from_connection" /\ pc = "done"

\* the connection counterparty_chain_from_connection was asked about
SourceConnection == conns[args.src_chain][args.src_connection_id]

\* C25: asked about a connection the chain holds, with both queries
\* answered, counterparty_chain_from_connection returns the chain id in the
\* state of the client the connection is built on; when either query fails,
\* it fails.
C25_CounterpartyChain ==
    ChainDecided =>
        /\ (faults = 0 /\ SourceConnection.state # "Uninitialized") =>
              /\ result.err = ""
              /\ result.chain_id = args.client_states[SourceConnection.client_id].chain_id
        /\ faults > 0 => result.err = "relayer"

\* the chain tracked by client-x was returned for a connection built on
\* client-x, while client-b tracks another chain
C25_Witness ==
    /\ ChainDecided /\ faults = 0
    /\ SourceConnection.client_id = "client-x"
    /\ args.client_states["client-x"].chain_id = "chainX"
    /\ args.client_states["client-b"].chain_id = "chainA"
    /\ result = ChainOk("chainX")

\* restore_from_event has returned
EventRestored == op = "restore_from_event" /\ pc = "restored"

\* C26: restore_from_event on the OpenInit event the first loop of handshake
\* obtained gives an engine whose a side has the chain, the client id and
\* the connection id of the a side of the handshake engine after it stored
\* the event's id, whose b side has no connection id and whose delay is
\* zero; on an event that is not a connection event it fails with
\* invalid_event.
C26_RestoreFromEvent ==
    EventRestored =>
        IF observed[1] = last.events[1]
        THEN /\ observed[1].kind = "OpenInitConnection"
             /\ result.err = ""
             /\ result.connection.a_side = engine.a_side
             /\ result.connection.a_side.connection_id # None
             /\ result.connection.b_side.connection_id = None
             /\ result.connection.delay_period = ZERO_DURATION
        ELSE result.err = "invalid_event"

\* the handshake engine has a delay of ten seconds and stored connection id
\* 1; the restored engine has the same a side and no delay
C26_Witness ==
    /\ EventRestored /\ observed[1] = last.events[1]
    /\ engine.delay_period = Duration(10, 0)
    /\ engine.a_side.connection_id = Some(1)
    /\ result.connection.a_side = engine.a_side
    /\ result.connection.delay_period = ZERO_DURATION

\* the OpenTry messages of the batches the last call submitted
TryMessages ==
    {last.sent[i].msgs[Len(last.sent[i].msgs)] :
        i \in {j \in DOMAIN last.sent :
                  last.sent[j].msgs[Len(last.sent[j].msgs)].type = "OpenTry"}}

\* C27: step_event, and with it step_state and handshake_step, leave the
\* Connection they are called on as it was: its delay, and the chain, the
\* client id and the connection id of both sides.
C27_StepLeavesEngine ==
    [][(op = "restore_from_event" /\ pc = "restored" /\ result.err = "") =>
          result'.connection = result.connection]_vars

\* the step submitted an OpenTry that carries the delay of the source's end
\* and got back an OpenTryConnection event with the id of the new end; the
\* Connection still has no delay and no id on its b side
C27_Witness ==
    /\ op = "restore_from_event" /\ pc = "done" /\ Len(observed) = 1
    /\ last.step = "Try" /\ last.err = ""
    /\ last.events[1].kind = "OpenTryConnection"
    /\ last.events[1].connection_id # None
    /\ \E m \in TryMessages : m.delay_period = Duration(10, 0)
    /\ result.connection.delay_period = ZERO_DURATION
    /\ result.connection.b_side.connection_id = None

\* every message of type ty handed to send_msgs so far
MessagesOf(ty) ==
    UNION {{b.msgs[i] : i \in {j \in DOMAIN b.msgs : b.msgs[j].type = ty}} :
              b \in DOMAIN sent}

\* C28: on both chains an end in Init names no counterparty connection and
\* an end in TryOpen or Open names one; the OpenInit messages submitted name
\* none, the OpenTry messages submitted name one, and so does the end
\* expected on the destination when the third loop builds an OpenAck or an
\* OpenConfirm.
C28_CounterpartyIdByState ==
    /\ \A ch \in ChainIds, id \in ConnIds :
          /\ conns[ch][id].state = "Init" => conns[ch][id].cp_connection_id = None
          /\ conns[ch][id].state \in {"TryOpen", "Open"} =>
                conns[ch][id].cp_connection_id # None
    /\ \A m \in MessagesOf("OpenInit") : m.cp_connection_id = None
    /\ \A m \in MessagesOf("OpenTry") : m.cp_connection_id # None
    /\ last.step \in {"AckA", "ConfirmA", "ConfirmB"} =>
          ExpectedConnection(DriveSide(last.step, engine), "OpenAck").cp_connection_id
              # None

\* the third loop of new has just had its OpenConfirm accepted: both chains
\* hold an Open end made by the handshake, and an OpenInit, an OpenTry and an
\* OpenAck were submitted
C28_Witness ==
    /\ op = "new" /\ last.step = "ConfirmB" /\ last.err = ""
    /\ EndOf(engine.a_side).state = "Open" /\ EndOf(engine.b_side).state = "Open"
    /\ MessagesOf("OpenInit") # {} /\ MessagesOf("OpenTry") # {}
    /\ MessagesOf("OpenAck") # {}

\* C29: when the third loop of handshake starts without the connection id
\* of the a side, handshake fails in its first iteration with
\* missing_local_connection_id; when it starts with that id and without the
\* id of the b side, with missing_counterparty_connection_id; in both cases
\* no connection end is read and nothing is submitted.
C29_ThirdLoopNeedsIds ==
    [][(op = "new" /\ pc = "drive"
        /\ (engine.a_side.connection_id = None \/ engine.b_side.connection_id = None)) =>
          /\ counter = 0
          /\ pc' = "done"
          /\ result' = IF engine.a_side.connection_id = None
                       THEN "missing_local_connection_id"
                       ELSE "missing_counterparty_connection_id"
          /\ observed' = <<>>
          /\ sent' = sent
          /\ conns' = conns]_vars

\* the first loop stored an id, every OpenTry attempt failed, and handshake
\* ended with missing_counterparty_connection_id
C29_Witness ==
    /\ op = "new" /\ pc = "done"
    /\ engine.a_side.connection_id # None /\ engine.b_side.connection_id = None
    /\ last.step = "Query"
    /\ result = "missing_counterparty_connection_id"
    /\ faults = MAX_RETRIES
    /\ MessagesOf("OpenAck") = {} /\ MessagesOf("OpenConfirm") = {}

\* the end build_conn_try reads on the source chain of the restored Connection
RestoredSourceEnd ==
    QueryConnection(conns, src_chain(result.connection),
                    src_connection_id(result.connection)[1])

\* C30: every OpenTry message build_conn_try makes carries the delay period of
\* the connection end on the source chain, whether the delay period of the
\* Connection differs from it (a Connection restored from the event has delay
\* zero) or equals it.
C30_TryDelayOfSource ==
    (op = "restore_from_event" /\ pc = "done" /\ last.step = "Try") =>
        \A m \in TryMessages :
            /\ m.delay_period = RestoredSourceEnd.delay_period
            /\ m.delay_period = engine.delay_period

\* an OpenTry message is made by a Connection whose delay period differs from
\* the delay period of the Init end on the source chain
C30_Witness ==
    /\ op = "restore_from_event" /\ pc = "done" /\ last.step = "Try"
    /\ TryMessages # {}
    /\ RestoredSourceEnd.state = "Init"
    /\ RestoredSourceEnd.delay_period = Duration(10, 0)
    /\ result.connection.delay_period # RestoredSourceEnd.delay_period
    /\ \A m \in TryMessages : m.delay_period = Duration(10, 0)

\* a builder was called on its own and returned
Built(action) == op = "build" /\ pc = "done" /\ last.step = action

\* the end the builder reads on the source chain
BuiltSourceEnd ==
    QueryConnection(conns, src_chain(engine), src_connection_id(engine)[1])

\* C31: the previous connection id of every OpenTry message build_conn_try
\* makes is the counterparty connection id the source end records, and the
\* b_side.connection_id of the Connection when the source end records none;
\* its counterparty names the client and the connection of the a side, the
\* connection id being present, and its proofs are taken from the a chain.
C31_TryPreviousConnectionId ==
    Built("Try") =>
        \A m \in TryMessages :
            /\ m.previous_connection_id =
                  IF BuiltSourceEnd.cp_connection_id # None
                  THEN BuiltSourceEnd.cp_connection_id
                  ELSE engine.b_side.connection_id
            /\ m.cp_client_id = engine.a_side.client_id
            /\ m.cp_connection_id = engine.a_side.connection_id
            /\ m.cp_connection_id # None
            /\ m.proof_from = engine.a_side.chain

\* the source end records connection 1 as its counterparty, the Connection
\* holds connection 0 on its b side, and the OpenTry message names
\* connection 1 as the previous connection id
C31_Witness ==
    /\ Built("Try")
    /\ engine.a_side.connection_id # None
    /\ BuiltSourceEnd.cp_connection_id = Some(1)
    /\ engine.b_side.connection_id = Some(0)
    /\ TryMessages # {}
    /\ \A m \in TryMessages : m.previous_connection_id = Some(1)

\* the steps handshake runs on flipped()
FlippedSteps == {"OpenInit", "AckA", "ConfirmA"}

\* the batches of the last step that hold a handshake message
HandshakeBatches ==
    {last.sent[i] : i \in {j \in DOMAIN last.sent : Handshake(last.sent[j]) # <<>>}}

\* C32: flipped() of the Connection has the b side as its a side, the a side
\* as its b side and the same delay period, and flipping twice gives the
\* Connection back; the Connection itself keeps the chain and the client of
\* new's a_client on its a side and those of b_client on its b side; and the
\* handshake message of every step handshake runs on flipped() (OpenInit,
\* OpenAck and OpenConfirm to the a chain) is handed to the chain of the a
\* side, with proofs of the chain of the b side.
C32_Flipped ==
    (op = "new" /\ engine # NoEngine) =>
        /\ flipped(engine).a_side = engine.b_side
        /\ flipped(engine).b_side = engine.a_side
        /\ flipped(engine).delay_period = engine.delay_period
        /\ flipped(flipped(engine)) = engine
        /\ engine.a_side.chain = args.a_client.dst_chain
        /\ engine.a_side.client_id = args.a_client.id
        /\ engine.b_side.chain = args.b_client.dst_chain
        /\ engine.b_side.client_id = args.b_client.id
        /\ engine.delay_period = args.delay_period
        /\ last.step \in FlippedSteps =>
              \A b \in HandshakeBatches :
                  /\ b.chain = engine.a_side.chain
                  /\ b.msgs[Len(b.msgs)].proof_from = engine.b_side.chain

\* the third loop ran build_conn_ack_and_send on flipped(): the OpenAck went
\* to chainA with proofs of chainB, the client update ahead of it to chainB
C32_Witness ==
    /\ op = "new" /\ last.step = "AckA" /\ last.err = ""
    /\ engine.a_side.chain = "chainA" /\ engine.b_side.chain = "chainB"
    /\ \E b \in HandshakeBatches :
          /\ b.chain = "chainA"
          /\ b.msgs[Len(b.msgs)].type = "OpenAck"
          /\ b.msgs[Len(b.msgs)].proof_from = "chainB"
    /\ \E i \in DOMAIN last.sent :
          last.sent[i].chain = "chainB" /\ Handshake(last.sent[i]) = <<>>

\* C33: a run of new on chains whose calls may fail returns.  Each of the
\* three loops of handshake starts an iteration only while fewer than
\* MAX_RETRIES were made, so at most MAX_RETRIES OpenInit and MAX_RETRIES
\* OpenTry messages are submitted and at most MAX_RETRIES steps of the third
\* loop submit, also when every query of the third loop fails.
C33_HandshakeTerminates ==
    /\ [](pc \in {"init", "try", "drive"} => counter < MAX_RETRIES)
    /\ [](pc = "dispatch" => counter <= MAX_RETRIES)
    /\ [](\A ch \in ChainIds :
             /\ Submitted("OpenInit", ch) <= MAX_RETRIES
             /\ Submitted("OpenTry", ch) <= MAX_RETRIES)
    /\ [](Submitted("OpenAck", "chainA") + Submitted("OpenConfirm", "chainA")
            + Submitted("OpenConfirm", "chainB") <= MAX_RETRIES)
    /\ <>(pc = "done")

\* both ids were stored at the first attempt, MAX_RETRIES calls of the third
\* loop failed, the last of them a query, and the handshake gave up without
\* an OpenAck or OpenConfirm
C33_Witness ==
    /\ op = "new" /\ pc = "done" /\ result = "max_retry"
    /\ Submitted("OpenInit", "chainA") = 1 /\ Submitted("OpenTry", "chainB") = 1
    /\ faults = MAX_RETRIES /\ counter = MAX_RETRIES
    /\ last.step = "Query" /\ last.err # ""
    /\ MessagesOf("OpenAck") = {} /\ MessagesOf("OpenConfirm") = {}
    /\ Submissions = 3

\* the worker's step_event has returned
WorkerStepped ==
    op = "restore_from_state" /\ pc = "done" /\ last.step # "restore_from_state"

\* the state C34 names for the kind of an event
StateOfKind(kind) ==
    CASE kind = "OpenInitConnection" -> "Init"
      [] kind = "OpenTryConnection" -> "TryOpen"
      [] kind \in {"OpenAckConnection", "OpenConfirmConnection"} -> "Open"
      [] OTHER -> "Uninitialized"

\* the handshake messages of a batch
HandshakeMessages(b) == SelectSeq(b.msgs, LAMBDA m : m.type # "UpdateClient")

\* C34: step_event(event, index) takes the arm handshake_step takes on the
\* state of the event's kind (Init for OpenInitConnection, TryOpen for
\* OpenTryConnection, Open for OpenAckConnection and OpenConfirmConnection,
\* Uninitialized for every other event) and the state counterparty_state
\* returned.  One call hands at most one handshake message to send_msgs,
\* that of the destination chain, and nothing at all when the event is not
\* a connection event.  It returns Retry(index), with the index it was
\* given, when counterparty_state or the arm failed, and Ok otherwise.
C34_SingleShot ==
    WorkerStepped =>
        /\ Len(observed) = 3 =>
              last.step = StepAction(StateOfKind(observed[1].kind), observed[3])
        /\ Len(observed) = 2 => last.step = "counterparty_state" /\ last.err # ""
        /\ \A i \in DOMAIN last.sent :
              /\ Len(HandshakeMessages(last.sent[i])) <= 1
              /\ HandshakeMessages(last.sent[i]) # <<>> =>
                    /\ last.sent[i].chain = engine.b_side.chain
                    /\ \A j \in DOMAIN last.sent :
                          HandshakeMessages(last.sent[j]) # <<>> => j = i
        /\ observed[1].kind \notin ConnectionEventKinds =>
              /\ last.sent = <<>>
              /\ Len(observed) = 3 => last.step = "Nothing"
        /\ result = IF last.err # "" THEN <<"Retry", observed[2]>> ELSE <<"Ok">>
        /\ last.err = "" =>
              Len(last.events) = IF last.step = "Nothing" THEN 0 ELSE 1

\* step_event(OpenTryConnection, 7) met Init on the counterparty chain and
\* took the OpenAck arm; the client update went to the source chain, the
\* submission of the OpenAck failed and the verdict is Retry(7)
C34_Witness ==
    /\ WorkerStepped
    /\ observed = <<Event("OpenTryConnection", Some(0), "client-a", None, "client-b"),
                    7, "Init">>
    /\ last.step = "Ack" /\ last.err = "submit"
    /\ Len(last.sent) = 2
    /\ HandshakeMessages(last.sent[2]) # <<>>
    /\ result = <<"Retry", 7>>

\* the destination end passes validated_expected_connection (C14)
DestinationValid ==
    /\ DestinationEnd.state \in {"Init", "TryOpen"}
    /\ DestinationEnd.client_id = engine.b_side.client_id
    /\ DestinationEnd.cp_client_id = engine.a_side.client_id
    /\ \/ DestinationEnd.cp_connection_id = None
       \/ DestinationEnd.cp_connection_id = engine.a_side.connection_id

\* C35: build_conn_ack and build_conn_confirm, whichever call is the first to
\* fail, return missing_local_connection_id when the Connection has no source
\* connection id and missing_counterparty_connection_id when it has that but
\* no destination connection id; when it has both and the destination end
\* is Uninitialized or does not pass the validation (it is Open, or belongs
\* to other clients, or names another counterparty connection) they return
\* an error.  In all these cases no batch is handed to send_msgs of either
\* chain and the ledgers stay as they were.
C35_NothingSentUnlessValid ==
    [][(op = "build" /\ pc = "start" /\ last'.step \in {"Ack", "Confirm"}) =>
          /\ engine.a_side.connection_id = None =>
                /\ result' = "missing_local_connection_id"
                /\ last'.sent = <<>> /\ sent' = sent /\ conns' = conns
          /\ (engine.a_side.connection_id # None
              /\ engine.b_side.connection_id = None) =>
                /\ result' = "missing_counterparty_connection_id"
                /\ last'.sent = <<>> /\ sent' = sent /\ conns' = conns
          /\ (engine.a_side.connection_id # None
              /\ engine.b_side.connection_id # None
              /\ ~DestinationValid) =>
                /\ result' \in {"missing_connection_id", "connection_already_exist",
                                "chain_query"}
                /\ observed' = <<"none", "ok">> =>
                      result' = IF DestinationEnd.state = "Uninitialized"
                                THEN "missing_connection_id"
                                ELSE "connection_already_exist"
                /\ last'.sent = <<>> /\ sent' = sent /\ conns' = conns
    ]_vars

\* build_conn_confirm on a Connection with both ids met a destination end
\* that is Open already: it failed, and nothing was handed to send_msgs
C35_Witness ==
    /\ Built("Confirm")
    /\ engine.a_side.connection_id # None /\ engine.b_side.connection_id # None
    /\ observed = <<"none", "ok">>
    /\ DestinationEnd.state = "Open"
    /\ DestinationEnd.client_id = engine.b_side.client_id
    /\ result = "connection_already_exist"
    /\ last.sent = <<>> /\ sent = EmptyBag

\* the batches handed to send_msgs of chain ch that hold client updates only
UpdatesOnly(ch) ==
    {b \in DOMAIN sent : b.chain = ch /\ HandshakeMessages(b) = <<>>}

\* C36: while the Connection has no a_side.connection_id, an attempt of the
\* second loop fails with missing_local_connection_id whichever call would
\* have failed, hands nothing to send_msgs and leaves the ledgers and the
\* Connection as they were; so no OpenTry has been submitted and no client
\* update has been sent to the a chain as long as the id is absent, and the
\* id appears only with an OpenInitConnection event of the first loop, as
\* the id of an end the a chain holds.
C36_NoTryBeforeInit ==
    [][op = "new" =>
          /\ (pc = "try" /\ engine.a_side.connection_id = None) =>
                /\ last' = Step("OpenTry", "missing_local_connection_id", <<>>)
                /\ sent' = sent /\ conns' = conns /\ engine' = engine
                /\ pc' = IF counter + 1 < MAX_RETRIES THEN "try" ELSE "drive"
          /\ engine'.a_side.connection_id = None =>
                /\ \A b \in DOMAIN sent' : \A i \in DOMAIN b.msgs :
                      b.msgs[i].type \in {"OpenInit"}
          /\ (engine.a_side.connection_id = None
              /\ engine'.a_side.connection_id # None) =>
                /\ pc = "init" /\ last'.step = "OpenInit" /\ last'.err = ""
                /\ conns'[engine'.a_side.chain][engine'.a_side.connection_id[1]].state
                      = "Init"
    ]_vars

\* every attempt of the first loop failed, MAX_RETRIES attempts of the second
\* loop failed for want of the id, and only OpenInit was ever submitted
C36_Witness ==
    /\ op = "new" /\ pc = "drive" /\ counter = 0
    /\ engine.a_side.connection_id = None
    /\ last = Step("OpenTry", "missing_local_connection_id", <<>>)
    /\ faults = MAX_RETRIES
    /\ Submitted("OpenInit", "chainA") > 0
    /\ MessagesOf("OpenTry") = {}
    /\ UpdatesOnly("chainA") = {}

\* the side whose connection id a loop of handshake stores
LoopSide(c, loop) == IF loop = "init" THEN c.a_side ELSE c.b_side

\* C37: when the chain accepted the OpenInit of the first loop or the OpenTry
\* of the second (its ledger changed), either the event carried the id of
\* the end the chain made and the Connection stores it on the side of that
\* loop, or the event carried none: then the handshake returns
\* missing_connection_id_from_event at once, the Connection is left as it
\* was, without the id of that side, and no message of a later phase has
\* been or will be submitted.  Nothing else makes the handshake return this
\* error.
C37_EventWithoutId ==
    [][op = "new" =>
          /\ (pc \in {"init", "try"} /\ conns' # conns) =>
                IF last'.err = ""
                THEN /\ LoopSide(engine', pc).connection_id # None
                     /\ LoopSide(engine, pc).connection_id = None
                     /\ LET side == LoopSide(engine', pc)
                        IN /\ conns'[side.chain][side.connection_id[1]]
                                 # conns[side.chain][side.connection_id[1]]
                           /\ \A k \in ConnIds \ {side.connection_id[1]} :
                                 conns'[side.chain][k] = conns[side.chain][k]
                     /\ pc' \in {"try", "drive"}
                ELSE /\ last'.err = "missing_connection_id_from_event"
                     /\ result' = "missing_connection_id_from_event"
                     /\ pc' = "done"
                     /\ engine' = engine
                     /\ LoopSide(engine', pc).connection_id = None
                     /\ \A b \in DOMAIN sent' : \A i \in DOMAIN b.msgs :
                           b.msgs[i].type \in
                              IF pc = "init" THEN {"OpenInit"}
                              ELSE {"OpenInit", "OpenTry", "UpdateClient"}
          /\ result' = "missing_connection_id_from_event" =>
                \/ result = "missing_connection_id_from_event"
                \/ pc \in {"init", "try"} /\ conns' # conns
    ]_vars

\* chainB accepted the OpenTry and answered with an event without the id:
\* the handshake returned, the b side has no id, the new end is on chainB
C37_Witness ==
    /\ op = "new" /\ pc = "done"
    /\ result = "missing_connection_id_from_event"
    /\ last.step = "OpenTry"
    /\ engine.a_side.connection_id # None /\ engine.b_side.connection_id = None
    /\ \E k \in ConnIds :
          /\ conns["chainB"][k].state = "TryOpen"
          /\ conns["chainB"][k].cp_connection_id = engine.a_side.connection_id
    /\ Submitted("OpenTry", "chainB") = 1
    /\ MessagesOf("OpenAck") = {} /\ MessagesOf("OpenConfirm") = {}

\* the third loop is running or has returned
ThirdLoop ==
    /\ op = "new"
    /\ engine.a_side.connection_id # None /\ engine.b_side.connection_id # None
    /\ \/ pc \in {"drive", "dispatch"}
       \/ pc = "done" /\ result \in {"Ok", "max_retry"}

\* the productive iterations so far: an end opened by OpenAck or
\* OpenConfirm, and the final check
Productive ==
    (IF EndOf(engine.a_side).state = "Open" THEN 1 ELSE 0)
    + (IF EndOf(engine.b_side).state = "Open" THEN 1 ELSE 0)
    + (IF result = "Ok" THEN 1 ELSE 0)

\* the iterations that ended without being productive
Lost == counter - (IF pc = "dispatch" THEN 1 ELSE 0) - Productive

\* C38: the third loop of a run of new starts on (Init, TryOpen).  An
\* iteration whose query fails or whose OpenAck or OpenConfirm fails is lost:
\* it opens no end, and the loop goes on unless it was the MAX_RETRIES-th
\* iteration; every other iteration is productive: it opens the a end, then
\* the b end, then sees (Open, Open).  So the handshake returns Ok exactly
\* when at most MAX_RETRIES - 3 iterations were lost, and max_retry when
\* more were.
C38_ThirdLoopBudget ==
    /\ []((ThirdLoop /\ pc = "drive" /\ counter = 0) =>
             /\ EndOf(engine.a_side).state = "Init"
             /\ EndOf(engine.b_side).state = "TryOpen")
    /\ []((ThirdLoop /\ pc = "done") =>
             /\ result = "Ok" <=> Lost <= MAX_RETRIES - 3
             /\ result = "max_retry" <=> Lost > MAX_RETRIES - 3)
    /\ [][(ThirdLoop /\ pc \in {"drive", "dispatch"}) =>
             /\ ThirdLoop'
             /\ Lost' = IF last'.err # "" THEN Lost + 1 ELSE Lost
             /\ last'.err # "" =>
                   /\ conns' = conns
                   /\ IF counter' < MAX_RETRIES
                      THEN pc' = "drive" /\ result' = result
                      ELSE pc' = "done" /\ result' = "max_retry"
          ]_vars

\* two iterations were lost and the fifth saw (Open, Open)
C38_Witness ==
    /\ ThirdLoop /\ pc = "done" /\ result = "Ok"
    /\ counter = MAX_RETRIES /\ Lost = 2
    /\ last.step = "Done"

================================================================================
